---------------------------- MODULE Spec2Model ----------------------------
(***************************************************************************)
(* Hardware-telemetry probes of python_scripting_project:                  *)
(*   modules/temp_info.py, modules/volt_info.py, modules/gpu_info.py,      *)
(*   modules/remote_monitor.py.                                            *)
(*                                                                         *)
(* The state is the machine the probes look at (sensor tree, thermal       *)
(* zones, energy counters, the command-line tools and the remote channel)  *)
(* and the value returned by the last public operation that was called.    *)
(*                                                                         *)
(* Conventions.                                                            *)
(*  - A Python string whose content is inspected (substring tests,         *)
(*    lower()) is a sequence of one-character strings.                     *)
(*  - A Python float is the exact rational [n, d] it was computed as       *)
(*    (n / d); an optional float carries the flag `some` (FALSE: None).    *)
(*  - A function that may raise returns [exc, val]; exc = TRUE is an       *)
(*    exception leaving the function, and a try/except is Catch.           *)
(***************************************************************************)
EXTENDS Integers, Sequences, FiniteSets, TLC

VARIABLES
    platform,   \* platform.system()
    hwmon,      \* /sys/class/hwmon
    thermal,    \* /sys/class/thermal
    sensorsCmd, \* the `sensors -A` utility
    nvsmi,      \* the nvidia-smi utility
    lspci,      \* the `lspci -mm` utility
    drm,        \* /sys/class/drm/card* and /sys/bus/pci/devices/*/vendor
    rapl,       \* /sys/class/powercap/intel-rapl
    remote,     \* the remote host behind fabric's Connection
    dmi,        \* the files of /sys/class/dmi/id
    dmidecode,  \* the dmidecode utility
    lshw,       \* the lshw utility
    vm,         \* psutil.virtual_memory()
    op,         \* the public operation that returned last ("none": none yet)
    ret,        \* the value it returned
    raised,     \* TRUE when it ended by an exception instead
    unclosed    \* the file handles the operation opened and has not closed

vars == <<platform, hwmon, thermal, sensorsCmd, nvsmi, lspci, drm, rapl,
          remote, dmi, dmidecode, lshw, vm, op, ret, raised, unclosed>>

envVars == <<platform, hwmon, thermal, sensorsCmd, nvsmi, lspci, drm, rapl,
             remote, dmi, dmidecode, lshw, vm>>

-----------------------------------------------------------------------------
(* Strings                                                                 *)

LowerChar(c) ==
    CASE c = "A" -> "a" [] c = "B" -> "b" [] c = "C" -> "c" [] c = "D" -> "d"
      [] c = "E" -> "e" [] c = "F" -> "f" [] c = "G" -> "g" [] c = "H" -> "h"
      [] c = "I" -> "i" [] c = "J" -> "j" [] c = "K" -> "k" [] c = "L" -> "l"
      [] c = "M" -> "m" [] c = "N" -> "n" [] c = "O" -> "o" [] c = "P" -> "p"
      [] c = "Q" -> "q" [] c = "R" -> "r" [] c = "S" -> "s" [] c = "T" -> "t"
      [] c = "U" -> "u" [] c = "V" -> "v" [] c = "W" -> "w" [] c = "X" -> "x"
      [] c = "Y" -> "y" [] c = "Z" -> "z" [] OTHER -> c

\* str.lower()
Lower(s) == [i \in DOMAIN s |-> LowerChar(s[i])]

\* needle in hay
Contains(hay, needle) ==
    \E i \in 1..(Len(hay) - Len(needle) + 1) :
        SubSeq(hay, i, i + Len(needle) - 1) = needle

\* hay.startswith(prefix)
StartsWith(hay, prefix) ==
    /\ Len(hay) >= Len(prefix)
    /\ SubSeq(hay, 1, Len(prefix)) = prefix

\* any(k in s for k in keys)
AnyIn(keys, s) == \E k \in keys : Contains(s, k)

K_cpu      == <<"c","p","u">>
K_core     == <<"c","o","r","e">>
K_package  == <<"p","a","c","k","a","g","e">>
K_gpu      == <<"g","p","u">>
K_nvidia   == <<"n","v","i","d","i","a">>
K_amd      == <<"a","m","d">>
K_radeon   == <<"r","a","d","e","o","n">>
K_dram     == <<"d","r","a","m">>
K_memory   == <<"m","e","m","o","r","y">>
K_mem      == <<"m","e","m">>
K_ram      == <<"r","a","m">>
K_vrm      == <<"v","r","m">>
K_vreg     == <<"v","r","e","g">>
K_vcore    == <<"v","c","o","r","e">>
K_acpitz   == <<"a","c","p","i","t","z">>
K_in       == <<"i","n">>

S_Unknown    == <<"U","n","k","n","o","w","n">>
S_coretemp   == <<"c","o","r","e","t","e","m","p">>
S_amdgpu     == <<"a","m","d","g","p","u">>
S_nouveau    == <<"n","o","u","v","e","a","u">>
S_nvme       == <<"n","v","m","e">>
S_asusec     == <<"a","s","u","s","e","c">>
S_nct        == <<"n","c","t","6","7","9","8">>
S_PackageId0 == <<"P","a","c","k","a","g","e"," ","i","d"," ","0">>
S_Core0      == <<"C","o","r","e"," ","0">>
S_edge       == <<"e","d","g","e">>
S_GPUcore    == <<"G","P","U"," ","c","o","r","e">>
S_Composite  == <<"C","o","m","p","o","s","i","t","e">>
S_VRM        == <<"V","R","M">>
S_Vcore      == <<"V","c","o","r","e">>
S_DRAM       == <<"D","R","A","M">>
S_empty      == <<>>

\* An optional string: the text of a file that may be absent.
NoStr     == [some |-> FALSE, s |-> S_empty]
Str(s)    == [some |-> TRUE, s |-> s]

Digit(i) == CASE i = 0 -> "0" [] i = 1 -> "1" [] i = 2 -> "2" [] i = 3 -> "3"
              [] i = 4 -> "4" [] i = 5 -> "5" [] i = 6 -> "6" [] i = 7 -> "7"
              [] i = 8 -> "8" [] OTHER -> "9"

KindText(kind) ==
    CASE kind = "temp"  -> <<"t","e","m","p">>
      [] kind = "in"    -> <<"i","n">>
      [] kind = "power" -> <<"p","o","w","e","r">>
      [] OTHER          -> <<"f","a","n">>

\* The directory entry "<kind><idx>_input", e.g. temp1_input.
InputFileName(kind, idx) ==
    KindText(kind) \o <<Digit(idx)>> \o <<"_","i","n","p","u","t">>

-----------------------------------------------------------------------------
(* Numbers                                                                 *)

None      == [some |-> FALSE, n |-> 0, d |-> 1]
Num(n, d) == [some |-> TRUE, n |-> n, d |-> d]

\* float(text) / k
DivBy(v, k) == Num(v, k)

NumEq(a, b) == a.n * b.d = b.n * a.d
NumLt(a, b) == a.n * b.d < b.n * a.d
NumLe(a, b) == a.n * b.d <= b.n * a.d

\* Python truthiness of an optional float: None and 0.0 are falsy.
Truthy(x) == x.some /\ x.n # 0

\* a or b on optional floats
Or(a, b) == IF Truthy(a) THEN a ELSE b

\* max(vals): the first of the largest elements (vals is not empty).
RECURSIVE MaxOf(_)
MaxOf(vals) ==
    IF Len(vals) = 1 THEN vals[1]
    ELSE LET m == MaxOf(SubSeq(vals, 1, Len(vals) - 1))
         IN  IF NumLt(m, vals[Len(vals)]) THEN vals[Len(vals)] ELSE m

-----------------------------------------------------------------------------
(* Exceptions                                                              *)

Ok(v)    == [exc |-> FALSE, val |-> v]
Raise(v) == [exc |-> TRUE, val |-> v]

\* try: r  except Exception: dflt
Catch(r, dflt) == IF r.exc THEN Ok(dflt) ELSE r

\* Sequence helpers
RECURSIVE Flatten(_)
Flatten(ss) == IF ss = <<>> THEN <<>> ELSE Head(ss) \o Flatten(Tail(ss))

Range(s) == {s[i] : i \in DOMAIN s}

-----------------------------------------------------------------------------
(* Files                                                                   *)

\* The outcome of reading a numeric file: st is "ok" (the text is the
\* integer v), "denied" (open raises), "malformed" (float()/int() raises)
\* or "absent" (os.path.exists is false).
Content(st, v) == [st |-> st, v |-> v]
Absent         == Content("absent", 0)

\* with open(path) as f: float(f.read().strip())
ReadNumber(c) == IF c.st = "ok" THEN Ok(c.v) ELSE Raise(0)

-----------------------------------------------------------------------------
(* temp_info.py: the sensor-tree probe                                     *)

\* hwmon: sensor_name = "Unknown" unless the name file exists
SensorName(dev) == IF dev.name.some THEN dev.name.s ELSE S_Unknown

\* label = temp_file unless the label file exists
LabelOf(f) == IF f.label.some THEN f.label.s ELSE InputFileName(f.kind, f.idx)

\* crit_temp / max_temp: None unless the file exists and reads as a number
Sidecar(c) ==
    IF c.st = "absent" THEN None
    ELSE LET r == Catch(ReadNumber(c), 0)
         IN  IF ReadNumber(c).exc THEN None ELSE DivBy(r.val, 1000)

\* HwmonTempEntry that reports the raw millidegrees
HwmonTempEntry_raw(dev, f) ==
    LET t == ReadNumber(f.content)
    IN  IF t.exc THEN <<>>
        ELSE << [sensor      |-> SensorName(dev),
                 label       |-> LabelOf(f),
                 temperature |-> DivBy(t.val, 1),
                 critical    |-> Sidecar(f.crit),
                 max         |-> Sidecar(f.max),
                 file        |-> InputFileName(f.kind, f.idx)] >>

\* HwmonTempEntry with the value divided only when it is above 1000
HwmonTempEntry_threshold(dev, f) ==
    LET t == ReadNumber(f.content)
    IN  IF t.exc THEN <<>>
        ELSE << [sensor      |-> SensorName(dev),
                 label       |-> LabelOf(f),
                 temperature |-> IF t.val > 1000 THEN DivBy(t.val, 1000)
                                                 ELSE DivBy(t.val, 1),
                 critical    |-> Sidecar(f.crit),
                 max         |-> Sidecar(f.max),
                 file        |-> InputFileName(f.kind, f.idx)] >>

\* One pass of `for temp_file in temp_files`: the reading, or nothing when
\* the read raised (except Exception: continue).
HwmonTempEntry(dev, f) ==
    LET t == ReadNumber(f.content)
    IN  IF t.exc THEN <<>>
        ELSE << [sensor      |-> SensorName(dev),
                 label       |-> LabelOf(f),
                 temperature |-> DivBy(t.val, 1000),
                 critical    |-> Sidecar(f.crit),
                 max         |-> Sidecar(f.max),
                 file        |-> InputFileName(f.kind, f.idx)] >>

\* file.startswith("temp") and file.endswith("_input")
TempFiles(dev) == SelectSeq(dev.files, LAMBDA f : f.kind = "temp")

HwmonDevTemps(dev) ==
    IF ~dev.isdir THEN <<>>
    ELSE LET fs == TempFiles(dev)
         IN  Flatten([i \in DOMAIN fs |-> HwmonTempEntry(dev, fs[i])])

_get_hwmon_temperatures(tree) ==
    IF ~tree.exists THEN Ok(<<>>)
    ELSE Ok(Flatten([i \in DOMAIN tree.devs |-> HwmonDevTemps(tree.devs[i])]))

-----------------------------------------------------------------------------
(* temp_info.py: thermal zones                                             *)

S_thermal_zone_zone == <<"t","h","e","r","m","a","l","_","z","o","n","e","_",
                          "z","o","n","e">>
S_thermal_zone == <<"t","h","e","r","m","a","l","_","z","o","n","e">>
S_x86_pkg_temp == <<"x","8","6","_","p","k","g","_","t","e","m","p">>

\* f"thermal_zone_{thermal_dir.split('_')[-1]}" for thermal_zone<idx>
ZoneSensor(z) == S_thermal_zone_zone \o <<Digit(z.idx)>>

ThermalZoneEntry(z) ==
    IF ~z.isZone \/ z.temp.st = "absent" THEN <<>>
    ELSE LET t == ReadNumber(z.temp)
         IN  IF t.exc THEN <<>>
             ELSE << [sensor      |-> ZoneSensor(z),
                      label       |-> IF z.type.some THEN z.type.s ELSE S_Unknown,
                      temperature |-> DivBy(t.val, 1000),
                      critical    |-> None,
                      max         |-> None,
                      file        |-> S_thermal_zone] >>

_get_thermal_zone_temperatures(th) ==
    IF ~th.exists THEN Ok(<<>>)
    ELSE Ok(Flatten([i \in DOMAIN th.zones |-> ThermalZoneEntry(th.zones[i])]))

-----------------------------------------------------------------------------
(* Decimal text                                                            *)

\* str(n) for an integer n >= 0
RECURSIVE NatText(_)
NatText(n) == IF n < 10 THEN <<Digit(n)>> ELSE NatText(n \div 10) \o <<Digit(n % 10)>>

\* str(n) for an integer n
IntText(n) == IF n < 0 THEN <<"-">> \o NatText(0 - n) ELSE NatText(n)

IsDigit(c) == c \in {"0","1","2","3","4","5","6","7","8","9"}

DigitVal(c) == CHOOSE i \in 0..9 : Digit(i) = c

\* The longest run of digits at the front of s.
RECURSIVE DigitRun(_)
DigitRun(s) ==
    IF s # <<>> /\ IsDigit(Head(s)) THEN <<Head(s)>> \o DigitRun(Tail(s)) ELSE <<>>

RECURSIVE DigitsValue(_)
DigitsValue(ds) ==
    IF ds = <<>> THEN 0 ELSE 10 * DigitsValue(SubSeq(ds, 1, Len(ds) - 1)) + DigitVal(ds[Len(ds)])

RECURSIVE Pow10(_)
Pow10(k) == IF k = 0 THEN 1 ELSE 10 * Pow10(k - 1)

\* float(m.group(1)) for m = re.match(r'([0-9]+\.?[0-9]*)', s) at the front
\* of s, which starts with a digit.
NumberAtFront(s) ==
    LET ip   == DigitRun(s)
        rest == SubSeq(s, Len(ip) + 1, Len(s))
        fp   == IF rest # <<>> /\ Head(rest) = "." THEN DigitRun(Tail(rest)) ELSE <<>>
    IN  Num(DigitsValue(ip) * Pow10(Len(fp)) + DigitsValue(fp), Pow10(Len(fp)))

\* re.search(r'([0-9]+\.?[0-9]*)', s): the number at the first digit of s,
\* None when s holds no digit.
RECURSIVE FirstNumber(_)
FirstNumber(s) ==
    IF s = <<>> THEN None
    ELSE IF IsDigit(Head(s)) THEN NumberAtFront(s)
    ELSE FirstNumber(Tail(s))

\* s.strip() == the text of one decimal number (what float(s) accepts here):
\* an optional sign, digits, an optional fraction.
IsNumberText(s) ==
    LET u  == IF s # <<>> /\ Head(s) \in {"-", "+"} THEN Tail(s) ELSE s
        ip == DigitRun(u)
        r  == SubSeq(u, Len(ip) + 1, Len(u))
    IN  /\ ip # <<>>
        /\ \/ r = <<>>
           \/ Head(r) = "." /\ DigitRun(Tail(r)) = Tail(r)

\* float(s) for such a text
FloatOfText(s) ==
    IF Head(s) = "-"
    THEN LET m == NumberAtFront(Tail(s)) IN Num(0 - m.n, m.d)
    ELSE IF Head(s) = "+" THEN NumberAtFront(Tail(s)) ELSE NumberAtFront(s)

\* round(t, 1) of the float n/d, in tenths. A value exactly half way between
\* two tenths goes to the even one.
RoundTenths(n, d) ==
    LET q == (10 * n) \div d
        r == (10 * n) % d
    IN  IF 2 * r > d THEN q + 1
        ELSE IF 2 * r < d THEN q
        ELSE IF q % 2 = 0 THEN q ELSE q + 1

\* str(x) of the float x = t10 / 10, e.g. 45.7, -3.5
TenthsText(t10) ==
    LET a == IF t10 < 0 THEN 0 - t10 ELSE t10
    IN  (IF t10 < 0 THEN <<"-">> ELSE <<>>) \o NatText(a \div 10) \o <<".">> \o <<Digit(a % 10)>>

\* The suffix " °C" (the degree sign is written d,e,g here).
S_degC == <<" ","d","e","g","C">>
S_MB   == <<" ","M","B">>

-----------------------------------------------------------------------------
(* Command-line tools                                                      *)

\* A tool is [st, ...]: st = "missing" (FileNotFoundError), "timeout"
\* (TimeoutExpired), "fail" (non-zero exit status) or "ok".
RunRaises(tool) == tool.st \in {"missing", "timeout"}

\* One line of the output of `sensors -A`:
\*   kind   "chip" (coretemp-isa-0000), "adapter" (Adapter: ISA adapter),
\*          "reading" (label: value unit (crit = .., max = ..)), "blank",
\*          "garbage" (text without a colon)
\*   indent the number of leading blanks
\*   unit   "C", "V" or "RPM"; val in thousandths of the unit
StripLine(l)       == [l EXCEPT !.indent = 0]
LineIsEmpty(l)     == l.kind = "blank"
LineHasColon(l)    == l.kind \in {"adapter", "reading"}
LineStartsBlank(l) == l.indent > 0
LineIsAdapter(l)   == l.kind = "adapter" /\ ~LineStartsBlank(l)
\* line.replace(':', '')
LineSansColon(l)   == IF l.kind = "reading" THEN l.label ELSE l.chip

\* The reading a "label: value" line yields for the wanted unit: re.search of
\* r'(\d+\.?\d*)°?C' (resp. V) on the text after the first colon.
SensorsTempEntry(cur, l) ==
    IF l.unit = "C"
    THEN << [sensor      |-> cur,
             label       |-> l.label,
             temperature |-> Num(l.val, 1000),
             critical    |-> l.crit,
             max         |-> l.max,
             raw         |-> l.val] >>
    ELSE <<>>

SensorsVoltEntry(cur, l) ==
    IF l.unit = "V"
    THEN << [sensor  |-> cur,
             label   |-> l.label,
             voltage |-> Num(l.val, 1000),
             raw     |-> l.val] >>
    ELSE <<>>

\* The loop `for line in content.split('\n')`, from line i on, with
\* current_sensor = cur (an optional string) and the wanted unit.
RECURSIVE SensorsLoop(_, _, _, _)
SensorsLoop(lines, i, cur, unit) ==
    IF i > Len(lines) THEN <<>>
    ELSE LET l == StripLine(lines[i])
         IN  IF LineIsEmpty(l) \/ LineIsAdapter(l)
             THEN SensorsLoop(lines, i + 1, cur, unit)
             ELSE IF LineHasColon(l) /\ ~LineStartsBlank(l)
             THEN SensorsLoop(lines, i + 1, Str(LineSansColon(l)), unit)
             ELSE IF LineStartsBlank(l) /\ LineHasColon(l) /\ cur.some
             THEN (IF unit = "C" THEN SensorsTempEntry(cur.s, l)
                                 ELSE SensorsVoltEntry(cur.s, l))
                  \o SensorsLoop(lines, i + 1, cur, unit)
             ELSE SensorsLoop(lines, i + 1, cur, unit)

\* _get_sensors_temperatures without its try/except
_get_sensors_temperatures_uncaught(tool) ==
    IF RunRaises(tool) THEN Raise(<<>>)
    ELSE IF tool.st = "ok" THEN Ok(SensorsLoop(tool.lines, 1, NoStr, "C"))
    ELSE Ok(<<>>)

_get_sensors_temperatures(tool) ==
    Catch(IF RunRaises(tool) THEN Raise(<<>>)
          ELSE IF tool.st = "ok" THEN Ok(SensorsLoop(tool.lines, 1, NoStr, "C"))
          ELSE Ok(<<>>),
          <<>>)

\* A field of nvidia-smi's csv output: the text of the number v, the
\* placeholder N/A (na), or another placeholder such as [N/A] (bad).
S_NA  == <<"N","/","A">>
S_bNA == <<"[","N","/","A","]">>
FieldIsNumber(f) == ~f.na /\ ~f.bad
FieldText(f) == IF f.na THEN S_NA ELSE IF f.bad THEN S_bNA ELSE IntText(f.v)

S_nvidia_smi     == <<"n","v","i","d","i","a","-","s","m","i">>
S_GPUTemperature == <<"G","P","U"," ","T","e","m","p","e","r","a","t","u","r","e">>
S_gpu_info       == <<"g","p","u","_","i","n","f","o">>
S_GPU            == <<"G","P","U">>

\* float(result.stdout.strip()) of the temperature query: one line per GPU,
\* so a number only when there is exactly one GPU and its field is one.
NvidiaTempFloat(tool) ==
    IF Len(tool.gpus) = 1 /\ FieldIsNumber(tool.gpus[1].temp)
    THEN Ok(Num(tool.gpus[1].temp.v, 1))
    ELSE Raise(None)

\* Returns the reading in a sequence; <<>> is Python's None.
_get_nvidia_temperature(tool) ==
    Catch(IF RunRaises(tool) THEN Raise(<<>>)
          ELSE IF tool.st # "ok" THEN Ok(<<>>)
          ELSE LET t == NvidiaTempFloat(tool)
               IN  IF t.exc THEN Raise(<<>>)
                   ELSE Ok(<< [sensor      |-> S_nvidia_smi,
                               label       |-> S_GPUTemperature,
                               temperature |-> t.val,
                               critical    |-> None,
                               max         |-> None,
                               file        |-> S_nvidia_smi] >>),
          <<>>)

-----------------------------------------------------------------------------
(* gpu_info.py                                                             *)

\* round(t, 1) of the first temp*_input under an hwmon directory that reads
\* as a number, as [some, t10] with t10 the value in tenths; some = FALSE is
\* None. `files` are the contents of the sorted temp*_input files; st =
\* "empty" is a file whose text is blank.
RECURSIVE _read_first_temp_from_hwmon(_)
_read_first_temp_from_hwmon(files) ==
    IF files = <<>> THEN [some |-> FALSE, t10 |-> 0]
    ELSE LET c == Head(files)
         IN  IF c.st = "ok"
             THEN [some |-> TRUE,
                   t10  |-> IF c.v > 1000 THEN RoundTenths(c.v, 1000)
                                          ELSE RoundTenths(c.v, 1)]
             ELSE _read_first_temp_from_hwmon(Tail(files))

\* The files _read_first_temp_from_hwmon opens: every file up to the first
\* that reads as a number, except those open() refuses.  It opens them with
\* open(f, 'r').read(), without a with-block or close().
RECURSIVE OpenedFiles(_)
OpenedFiles(files) ==
    IF files = <<>> THEN 0
    ELSE LET c == Head(files)
         IN  IF c.st = "ok" THEN 1
             ELSE (IF c.st = "denied" THEN 0 ELSE 1) + OpenedFiles(Tail(files))

S_NVIDIA        == <<"N","V","I","D","I","A">>
S_AMD           == <<"A","M","D">>
S_Intel         == <<"I","n","t","e","l">>
S_Shared        == <<"S","h","a","r","e","d"," ","(","s","y","s","t","e","m",")">>
K_intel         == <<"i","n","t","e","l">>
K_ati           == <<"a","t","i">>
K_advanced      == <<"a","d","v","a","n","c","e","d"," ","m","i","c","r","o"," ","d","e","v","i","c","e","s">>
S_NvidiaCorp    == <<"N","V","I","D","I","A"," ","C","o","r","p","o","r","a","t","i","o","n">>
S_AmdCorp       == <<"A","d","v","a","n","c","e","d"," ","M","i","c","r","o"," ","D","e","v","i","c","e","s",","," ","I","n","c","."," ","[","A","M","D","/","A","T","I","]">>
S_IntelCorp     == <<"I","n","t","e","l"," ","C","o","r","p","o","r","a","t","i","o","n">>
\* the vendor text of older pci.ids files
S_IntelCorpOld  == <<"I","n","t","e","l"," ","C","o","r","p",".">>
S_HostBridge    == <<"H","o","s","t"," ","b","r","i","d","g","e">>
S_GeForce       == <<"G","e","F","o","r","c","e"," ","R","T","X"," ","3","0","7","0">>
S_Navi          == <<"N","a","v","i"," ","2","3">>
S_UHD           == <<"U","H","D"," ","G","r","a","p","h","i","c","s"," ","6","2","0">>

NoGpuInfo == [Name |-> NoStr, Vendor |-> NoStr, Memory |-> NoStr, Temperature |-> NoStr]

\* parts = [p.strip() for p in out.strip().split(',')] of the query
\* name,memory.total,temperature.gpu: one line "name, mem, temp" per GPU, so
\* with several GPUs parts[2] runs over the line break into the next name.
NvsmiParts(gpus) ==
    IF Len(gpus) = 0 THEN << S_empty >>
    ELSE IF Len(gpus) = 1
    THEN << gpus[1].name, FieldText(gpus[1].mem), FieldText(gpus[1].temp) >>
    ELSE << gpus[1].name, FieldText(gpus[1].mem),
            FieldText(gpus[1].temp) \o <<"\n">> \o gpus[2].name,
            FieldText(gpus[2].mem), FieldText(gpus[2].temp) >>

\* The "Try NVIDIA first" block: [done, info]; done = TRUE is the early return.
GpuInfoFromNvsmi(tool) ==
    IF RunRaises(tool) \/ tool.st # "ok" THEN [done |-> FALSE, info |-> NoGpuInfo]
    ELSE LET parts == NvsmiParts(tool.gpus)
         IN  IF Len(parts) >= 3
             THEN [done |-> TRUE,
                   info |-> [Name        |-> Str(parts[1]),
                             Vendor      |-> Str(S_NVIDIA),
                             Memory      |-> Str(parts[2] \o S_MB),
                             Temperature |-> Str(parts[3] \o S_degC)]]
             ELSE [done |-> FALSE, info |-> NoGpuInfo]

\* devices: the lines of `lspci -mm` that hold 'VGA' or '3D'
LspciDevices(tool) ==
    IF RunRaises(tool) \/ tool.st # "ok" THEN <<>>
    ELSE LET ds == SelectSeq(tool.devs, LAMBDA d : d.display)
         IN  [i \in DOMAIN ds |-> [bus |-> ds[i].bus, vendor |-> ds[i].vendor,
                                   name |-> ds[i].name]]

IsNvidiaDev(d) == Contains(Lower(d.vendor), K_nvidia) \/ Contains(Lower(d.name), K_nvidia)
IsDiscreteDev(d) == ~Contains(Lower(d.vendor), K_intel) /\ d.vendor # S_empty

\* The index in devices of the preferred device (0: there is none).
PreferredIndex(devices) ==
    IF devices = <<>> THEN 0
    ELSE IF \E i \in DOMAIN devices : IsNvidiaDev(devices[i])
    THEN CHOOSE i \in DOMAIN devices :
            /\ IsNvidiaDev(devices[i])
            /\ \A j \in 1..(i - 1) : ~IsNvidiaDev(devices[j])
    ELSE IF \E i \in DOMAIN devices : IsDiscreteDev(devices[i])
    THEN CHOOSE i \in DOMAIN devices :
            /\ IsDiscreteDev(devices[i])
            /\ \A j \in 1..(i - 1) : ~IsDiscreteDev(devices[j])
    ELSE 1

\* gpu_info['Vendor'] for the preferred device
VendorOf(d) ==
    LET pv == Lower(d.vendor)
        nf == Lower(d.name)
    IN  IF Contains(pv, K_nvidia) THEN Str(S_NVIDIA)
        ELSE IF Contains(pv, K_amd) \/ Contains(pv, K_ati) \/ Contains(pv, K_advanced)
        THEN Str(S_AMD)
        ELSE IF Contains(pv, K_intel) THEN Str(S_Intel)
        ELSE IF Contains(nf, K_nvidia) THEN Str(S_NVIDIA)
        ELSE IF Contains(nf, K_radeon) \/ Contains(nf, K_amd) \/ Contains(nf, K_ati)
        THEN Str(S_AMD)
        ELSE IF Contains(nf, K_intel) THEN Str(S_Intel)
        ELSE NoStr


\* A PCI address is the text "bb:dd.f"; lspci prints it with or without the
\* domain "0000:" in front (dom).  A key of the dict `temps` is the address
\* the regular expression cut out of the card's real path, or None.
NoAddr     == [some |-> FALSE, addr |-> ""]
Addr(a)    == [some |-> TRUE, addr |-> a]

\* temps[k] = v on a dict kept as a sequence of [key, t10] in insertion order
RECURSIVE DictPut(_, _, _)
DictPut(d, k, v) ==
    IF d = <<>> THEN << [key |-> k, t10 |-> v] >>
    ELSE IF Head(d).key = k THEN << [key |-> k, t10 |-> v] >> \o Tail(d)
    ELSE << Head(d) >> \o DictPut(Tail(d), k, v)

\* for hw in glob(dev/hwmon/hwmon*): temps[bus_suffix] = temp, when not None
RECURSIVE CardTemps(_, _, _)
CardTemps(d, key, hwmons) ==
    IF hwmons = <<>> THEN d
    ELSE LET t == _read_first_temp_from_hwmon(Head(hwmons))
         IN  CardTemps(IF t.some THEN DictPut(d, key, t.t10) ELSE d, key, Tail(hwmons))

\* A card's `path` holds the PCI addresses of os.path.realpath(card/device)
\* from the root bus down, the card's own address last (a card behind a
\* bridge: /sys/devices/pci0000:00/0000:00:01.0/0000:01:00.0).  re.search
\* returns the leftmost match, so bus_suffix is the first address of the
\* path; None for a path without one.
BusSuffix(c) == IF c.path = <<>> THEN NoAddr ELSE Addr(c.path[1])

\* The card as it would be found directly on the root bus
OnRootBus(c) ==
    [c EXCEPT !.path = IF c.path = <<>> THEN <<>> ELSE << c.path[Len(c.path)] >>]

\* for card in glob('/sys/class/drm/card*')
RECURSIVE DrmTemps(_, _)
DrmTemps(d, cards) ==
    IF cards = <<>> THEN d
    ELSE LET c == Head(cards)
         IN  DrmTemps(IF c.isdir THEN CardTemps(d, BusSuffix(c), c.hwmons) ELSE d, Tail(cards))

DictHas(d, k) == \E i \in DOMAIN d : d[i].key = k
DictGet(d, k) == d[CHOOSE i \in DOMAIN d : d[i].key = k].t10

\* `bus in temps` for the text lspci printed, and `bus[-7:] in temps`
BusKeyFull(bus)  == IF bus.dom THEN NoAddr ELSE Addr(bus.addr)
BusKeyShort(bus) == Addr(bus.addr)

V_10de == <<"0","x","1","0","d","e">>
V_1002 == <<"0","x","1","0","0","2">>
V_1022 == <<"0","x","1","0","2","2">>
V_8086 == <<"0","x","8","0","8","6">>
V_1234 == <<"0","x","1","2","3","4">>
K_10de == <<"1","0","d","e">>
K_1002 == <<"1","0","0","2">>
K_1022 == <<"1","0","2","2">>
K_8086 == <<"8","0","8","6">>

\* vendor_from_bus: the first candidate path has no domain and never exists;
\* the second is /sys/bus/pci/devices/0000:<addr>/vendor (in pciVendor when
\* it can be read).
vendor_from_bus(key, pciVendor) ==
    IF ~key.some THEN NoStr
    ELSE IF key.addr \notin DOMAIN pciVendor THEN NoStr
    ELSE LET v == Lower(pciVendor[key.addr])
         IN  IF Contains(v, K_10de) THEN Str(S_NVIDIA)
             ELSE IF Contains(v, K_1002) \/ Contains(v, K_1022) THEN Str(S_AMD)
             ELSE IF Contains(v, K_8086) THEN Str(S_Intel)
             ELSE NoStr

\* chosen_temp as [some, t10]
ChosenTemp(devices, pref, temps, pciVendor) ==
    LET byBus ==
            IF pref = 0 THEN [some |-> FALSE, t10 |-> 0]
            ELSE LET bus == devices[pref].bus
                 IN  IF DictHas(temps, BusKeyFull(bus))
                     THEN [some |-> TRUE, t10 |-> DictGet(temps, BusKeyFull(bus))]
                     ELSE IF DictHas(temps, BusKeyShort(bus))
                     THEN [some |-> TRUE, t10 |-> DictGet(temps, BusKeyShort(bus))]
                     ELSE [some |-> FALSE, t10 |-> 0]
        isNv(i) == vendor_from_bus(temps[i].key, pciVendor) = Str(S_NVIDIA)
    IN  IF byBus.some \/ temps = <<>> THEN byBus
        ELSE IF \E i \in DOMAIN temps : isNv(i)
        THEN [some |-> TRUE,
              t10  |-> temps[CHOOSE i \in DOMAIN temps :
                                isNv(i) /\ \A j \in 1..(i - 1) : ~isNv(j)].t10]
        ELSE [some |-> TRUE, t10 |-> temps[1].t10]


\* The files the unscoped open(f, 'r').read() of _read_first_temp_from_hwmon
\* opens over the hwmon directories of the cards
RECURSIVE SumOpened(_)
SumOpened(hwmons) ==
    IF hwmons = <<>> THEN 0 ELSE OpenedFiles(Head(hwmons)) + SumOpened(Tail(hwmons))

RECURSIVE CardsOpened(_)
CardsOpened(cards) ==
    IF cards = <<>> THEN 0
    ELSE (IF Head(cards).isdir THEN SumOpened(Head(cards).hwmons) ELSE 0)
         + CardsOpened(Tail(cards))

\* The number of files one call of get_gpu_info opens without a scope
UnscopedOpens(tool, drmTree) ==
    IF GpuInfoFromNvsmi(tool).done THEN 0 ELSE CardsOpened(drmTree.cards)

\* get_gpu_info without the "Memory for integrated GPUs" block
get_gpu_info_noShared(tool, lspciTool, drmTree) ==
    LET nv == GpuInfoFromNvsmi(tool)
    IN  IF nv.done THEN nv.info
        ELSE
        LET devices == LspciDevices(lspciTool)
            pref    == PreferredIndex(devices)
            temps   == DrmTemps(<<>>, drmTree.cards)
            chosen  == ChosenTemp(devices, pref, temps, drmTree.pciVendor)
        IN  [Name        |-> IF pref = 0 THEN NoStr ELSE Str(devices[pref].name),
             Vendor      |-> IF pref = 0 THEN NoStr ELSE VendorOf(devices[pref]),
             Memory      |-> NoStr,
             Temperature |-> IF chosen.some THEN Str(TenthsText(chosen.t10) \o S_degC)
                             ELSE NoStr]

get_gpu_info(tool, lspciTool, drmTree) ==
    LET nv == GpuInfoFromNvsmi(tool)
    IN  IF nv.done THEN nv.info
        ELSE
        LET devices == LspciDevices(lspciTool)
            pref    == PreferredIndex(devices)
            temps   == DrmTemps(<<>>, drmTree.cards)
            chosen  == ChosenTemp(devices, pref, temps, drmTree.pciVendor)
            vendor  == IF pref = 0 THEN NoStr ELSE VendorOf(devices[pref])
        IN  [Name        |-> IF pref = 0 THEN NoStr ELSE Str(devices[pref].name),
             Vendor      |-> vendor,
             Memory      |-> IF vendor.some /\ Lower(vendor.s) = K_intel
                             THEN Str(S_Shared) ELSE NoStr,
             Temperature |-> IF chosen.some THEN Str(TenthsText(chosen.t10) \o S_degC)
                             ELSE NoStr]

-----------------------------------------------------------------------------
(* temp_info.py: the per-component lists                                   *)

IsCpuReading(t) ==
    LET sensor_name == Lower(t.sensor)
        label       == Lower(t.label)
    IN  \/ Contains(sensor_name, K_cpu) \/ Contains(sensor_name, K_core)
        \/ Contains(label, K_cpu) \/ Contains(label, K_core)
        \/ Contains(label, K_package)

IsGpuReading(t) ==
    LET sensor_name == Lower(t.sensor)
        label       == Lower(t.label)
    IN  \/ Contains(sensor_name, K_gpu) \/ Contains(sensor_name, K_nvidia)
        \/ Contains(sensor_name, K_amd) \/ Contains(sensor_name, K_radeon)
        \/ Contains(label, K_gpu) \/ Contains(label, K_nvidia)
        \/ Contains(label, K_amd) \/ Contains(label, K_radeon)

_get_cpu_temperatures(tree, th) ==
    LET hw == _get_hwmon_temperatures(tree)
        tz == _get_thermal_zone_temperatures(th)
    IN  Catch(IF hw.exc \/ tz.exc THEN Raise(<<>>)
              ELSE Ok(SelectSeq(hw.val, IsCpuReading) \o tz.val),
              <<>>)

\* The "fallback: use gpu_info module" block: the reading it appends, if any.
GpuInfoReading(ginfo) ==
    LET gt == ginfo.Temperature
        m  == FirstNumber(gt.s)
    IN  IF gt.some /\ gt.s # S_empty /\ m.some
        THEN << [sensor      |-> S_gpu_info,
                 label       |-> IF ginfo.Name.some /\ ginfo.Name.s # S_empty
                                 THEN ginfo.Name.s ELSE S_GPU,
                 temperature |-> m,
                 critical    |-> None,
                 max         |-> None,
                 file        |-> S_gpu_info] >>
        ELSE <<>>

_get_gpu_temperatures(tree, tool, lspciTool, drmTree) ==
    LET hw == _get_hwmon_temperatures(tree)
        nv == _get_nvidia_temperature(tool)
    IN  Catch(IF hw.exc \/ nv.exc THEN Raise(<<>>)
              ELSE Ok(SelectSeq(hw.val, IsGpuReading) \o nv.val
                      \o GpuInfoReading(get_gpu_info(tool, lspciTool, drmTree))),
              <<>>)

NoTemps == [cpu |-> <<>>, gpu |-> <<>>, memory |-> <<>>, vrm |-> <<>>,
            motherboard |-> <<>>, storage |-> <<>>, other |-> <<>>]

_get_windows_temperatures ==
    [cpu |-> <<>>, gpu |-> <<>>, memory |-> <<>>, vrm |-> <<>>,
     motherboard |-> <<>>, storage |-> <<>>, other |-> <<>>,
     note |-> "Windows temperature monitoring not implemented"]

\* The dict with one more key
WithError(d, msg) ==
    [k \in DOMAIN d \cup {"error"} |-> IF k = "error" THEN msg ELSE d[k]]

\* The sensor tree as the k-th walk over it within one call finds it: the
\* files are read anew by every walk, and a sensor that is warming up shows
\* one degree more each time.
WarmerFile(f, n) ==
    IF f.kind = "temp" /\ f.content.st = "ok"
    THEN [f EXCEPT !.content.v = @ + 1000 * n] ELSE f

ReadAt(tree, k) ==
    IF ~tree.rising THEN tree
    ELSE [tree EXCEPT !.devs =
            [i \in DOMAIN tree.devs |->
                [tree.devs[i] EXCEPT !.files =
                    [j \in DOMAIN tree.devs[i].files |->
                        WarmerFile(tree.devs[i].files[j], k - 1)]]]]

get_temperatures(plat, tree, th, sens, tool, lspciTool, drmTree) ==
    LET hwmon_temps   == _get_hwmon_temperatures(tree)
        sensors_temps == _get_sensors_temperatures(sens)
        cpu_temps     == _get_cpu_temperatures(ReadAt(tree, 2), th)
        gpu_temps     == _get_gpu_temperatures(ReadAt(tree, 3), tool, lspciTool, drmTree)
        body ==
            IF plat = "Linux"
            THEN IF hwmon_temps.exc \/ sensors_temps.exc \/ cpu_temps.exc \/ gpu_temps.exc
                 THEN Raise(NoTemps)
                 ELSE Ok([cpu |-> cpu_temps.val, gpu |-> gpu_temps.val,
                          memory |-> <<>>, vrm |-> <<>>, motherboard |-> <<>>,
                          storage |-> <<>>, other |-> <<>>,
                          hwmon |-> hwmon_temps.val, sensors |-> sensors_temps.val])
            ELSE IF plat = "Windows" THEN Ok(_get_windows_temperatures)
            ELSE Ok(NoTemps)
    IN  IF body.exc THEN Ok(WithError(NoTemps, "Failed to get temperatures"))
        ELSE body

\* temps.get(key) or []
ListOf(d, key) == IF key \in DOMAIN d THEN d[key] ELSE <<>>

-----------------------------------------------------------------------------
(* temp_info.py: get_quick_summary                                         *)

HasPackageLabel(t) == Contains(Lower(t.label), K_package)

\* The index of the first TRUE of a sequence of booleans (0: none)
FirstIndex(bs) ==
    IF \E i \in DOMAIN bs : bs[i]
    THEN CHOOSE i \in DOMAIN bs : bs[i] /\ \A j \in 1..(i - 1) : ~bs[j]
    ELSE 0

Temperatures(list) == [i \in DOMAIN list |-> list[i].temperature]

\* QuickCpu that takes the maximum without looking for a package reading
QuickCpu_max(cpu_list) ==
    IF cpu_list = <<>> THEN None ELSE MaxOf(Temperatures(cpu_list))

QuickCpu(cpu_list) ==
    IF cpu_list = <<>> THEN None
    ELSE LET p == FirstIndex([i \in DOMAIN cpu_list |-> HasPackageLabel(cpu_list[i])])
         IN  IF p # 0 THEN cpu_list[p].temperature
             ELSE MaxOf(Temperatures(cpu_list))

\* QuickGpu that prefers the reading of nvidia-smi to the maximum
QuickGpu_vendorFirst(gpu_list) ==
    IF gpu_list = <<>> THEN None
    ELSE LET i == FirstIndex([k \in DOMAIN gpu_list |-> gpu_list[k].file = S_nvidia_smi])
         IN  IF i # 0 THEN gpu_list[i].temperature ELSE MaxOf(Temperatures(gpu_list))

QuickGpu(gpu_list) ==
    IF gpu_list = <<>> THEN None ELSE MaxOf(Temperatures(gpu_list))

\* any(x in label or x in sensor for x in keys)
EntryMatches(entry, keys) ==
    AnyIn(keys, Lower(entry.label)) \/ AnyIn(keys, Lower(entry.sensor))

RamKeys == {K_dram, K_memory, K_mem, K_ram}
VrmKeys == {K_vrm, K_vreg, K_vcore}

IsRamEntry(entry) == EntryMatches(entry, RamKeys)
IsVrmEntry(entry) == EntryMatches(entry, VrmKeys)

\* 'acpitz' in sensor and temperature and temperature > 0
IsAcpitzEntry(entry) ==
    /\ Contains(Lower(entry.sensor), K_acpitz)
    /\ Truthy(entry.temperature)
    /\ NumLt(Num(0, 1), entry.temperature)

\* The slot after the label loop and the acpitz fallback
QuickSlot(hw, keys) ==
    LET i == FirstIndex([k \in DOMAIN hw |-> EntryMatches(hw[k], keys)])
        a == FirstIndex([k \in DOMAIN hw |-> IsAcpitzEntry(hw[k])])
    IN  IF i # 0 THEN hw[i].temperature
        ELSE IF a # 0 THEN hw[a].temperature
        ELSE None

QuickOf(temps) ==
    [CPU |-> QuickCpu(ListOf(temps, "cpu")),
     GPU |-> QuickGpu(ListOf(temps, "gpu")),
     RAM |-> QuickSlot(ListOf(temps, "hwmon"), RamKeys),
     VRM |-> QuickSlot(ListOf(temps, "hwmon"), VrmKeys)]

NoQuick == [CPU |-> None, GPU |-> None, RAM |-> None, VRM |-> None]

\* get_quick_summary that lets a package line of the text utility decide
\* the CPU slot
get_quick_summary_textFirst(plat, tree, th, sens, tool, lspciTool, drmTree) ==
    LET temps == get_temperatures(plat, tree, th, sens, tool, lspciTool, drmTree)
        i     == IF sens.st = "ok"
                 THEN FirstIndex([k \in DOMAIN sens.lines |->
                                    /\ sens.lines[k].kind = "reading"
                                    /\ Contains(Lower(sens.lines[k].label), K_package)])
                 ELSE 0
    IN  IF temps.exc THEN Raise(NoQuick)
        ELSE IF i # 0 /\ plat = "Linux"
        THEN Ok([QuickOf(temps.val) EXCEPT !.CPU = Num(sens.lines[i].val, 1000)])
        ELSE Ok(QuickOf(temps.val))

get_quick_summary(plat, tree, th, sens, tool, lspciTool, drmTree) ==
    LET temps == get_temperatures(plat, tree, th, sens, tool, lspciTool, drmTree)
    IN  IF temps.exc THEN Raise(NoQuick)
        ELSE Catch(Ok(QuickOf(temps.val)), NoQuick)

-----------------------------------------------------------------------------
(* volt_info.py: voltages                                                  *)

\* HwmonVoltEntry with the value divided only when it is above 100
HwmonVoltEntry_threshold(dev, f) ==
    LET v == ReadNumber(f.content)
    IN  IF v.exc THEN <<>>
        ELSE << [sensor  |-> SensorName(dev),
                 label   |-> LabelOf(f),
                 voltage |-> IF v.val > 100 THEN DivBy(v.val, 1000) ELSE DivBy(v.val, 1),
                 file    |-> InputFileName(f.kind, f.idx)] >>

HwmonVoltEntry(dev, f) ==
    LET v == ReadNumber(f.content)
    IN  IF v.exc THEN <<>>
        ELSE << [sensor  |-> SensorName(dev),
                 label   |-> LabelOf(f),
                 voltage |-> DivBy(v.val, 1000),
                 file    |-> InputFileName(f.kind, f.idx)] >>

\* file.startswith("in") and file.endswith("_input")
VoltageFiles(dev) == SelectSeq(dev.files, LAMBDA f : f.kind = "in")

HwmonDevVolts(dev) ==
    IF ~dev.isdir THEN <<>>
    ELSE LET fs == VoltageFiles(dev)
         IN  Flatten([i \in DOMAIN fs |-> HwmonVoltEntry(dev, fs[i])])

_get_hwmon_voltages(tree) ==
    IF ~tree.exists THEN Ok(<<>>)
    ELSE Ok(Flatten([i \in DOMAIN tree.devs |-> HwmonDevVolts(tree.devs[i])]))

_get_sensors_voltages(tool) ==
    Catch(IF RunRaises(tool) THEN Raise(<<>>)
          ELSE IF tool.st = "ok" THEN Ok(SensorsLoop(tool.lines, 1, NoStr, "V"))
          ELSE Ok(<<>>),
          <<>>)

IsCpuVoltage(v) ==
    LET sensor_name == Lower(v.sensor)
        label       == Lower(v.label)
    IN  \/ Contains(sensor_name, K_cpu) \/ Contains(sensor_name, K_core)
        \/ Contains(label, K_cpu) \/ Contains(label, K_core)
        \/ Contains(label, K_vcore)

_get_cpu_voltages(tree) ==
    LET hw == _get_hwmon_voltages(tree)
    IN  Catch(IF hw.exc THEN Raise(<<>>) ELSE Ok(SelectSeq(hw.val, IsCpuVoltage)), <<>>)

_get_gpu_voltages(tree) ==
    LET hw == _get_hwmon_voltages(tree)
    IN  Catch(IF hw.exc THEN Raise(<<>>) ELSE Ok(SelectSeq(hw.val, IsGpuReading)), <<>>)

NoVoltages == [cpu |-> <<>>, gpu |-> <<>>, memory |-> <<>>, motherboard |-> <<>>,
               other |-> <<>>]

_get_windows_voltages ==
    [cpu |-> <<>>, gpu |-> <<>>, memory |-> <<>>, motherboard |-> <<>>,
     other |-> <<>>, note |-> "Windows voltage monitoring not implemented"]

get_voltages(plat, tree, sens) ==
    LET hwmon_voltages   == _get_hwmon_voltages(tree)
        sensors_voltages == _get_sensors_voltages(sens)
        cpu_voltages     == _get_cpu_voltages(tree)
        gpu_voltages     == _get_gpu_voltages(tree)
        body ==
            IF plat = "Linux"
            THEN IF hwmon_voltages.exc \/ sensors_voltages.exc
                    \/ cpu_voltages.exc \/ gpu_voltages.exc
                 THEN Raise(NoVoltages)
                 ELSE Ok([cpu |-> cpu_voltages.val, gpu |-> gpu_voltages.val,
                          memory |-> <<>>, motherboard |-> <<>>, other |-> <<>>,
                          hwmon |-> hwmon_voltages.val,
                          sensors |-> sensors_voltages.val])
            ELSE IF plat = "Windows" THEN Ok(_get_windows_voltages)
            ELSE Ok(NoVoltages)
    IN  IF body.exc THEN Ok(WithError(NoVoltages, "Failed to get voltages"))
        ELSE body

-----------------------------------------------------------------------------
(* volt_info.py: power                                                     *)

HwmonPowerEntry(dev, f) ==
    LET v == ReadNumber(f.content)
    IN  IF v.exc THEN <<>>
        ELSE << [sensor |-> SensorName(dev),
                 label  |-> LabelOf(f),
                 power  |-> DivBy(v.val, 1000000),
                 file   |-> InputFileName(f.kind, f.idx)] >>

\* file.startswith("power") and file.endswith("_input")
PowerFiles(dev) == SelectSeq(dev.files, LAMBDA f : f.kind = "power")

HwmonDevPower(dev) ==
    IF ~dev.isdir THEN <<>>
    ELSE LET fs == PowerFiles(dev)
         IN  Flatten([i \in DOMAIN fs |-> HwmonPowerEntry(dev, fs[i])])

_get_hwmon_power(tree) ==
    IF ~tree.exists THEN Ok(<<>>)
    ELSE Ok(Flatten([i \in DOMAIN tree.devs |-> HwmonDevPower(tree.devs[i])]))

S_package0 == <<"p","a","c","k","a","g","e","-","0">>
S_psys     == <<"p","s","y","s">>
S_dram     == <<"d","r","a","m">>

\* RaplEntry with the counter read as millijoules
RaplEntry_millijoule(dom) ==
    IF ~dom.isRapl \/ dom.energy.st = "absent" THEN <<>>
    ELSE LET e == ReadNumber(dom.energy)
         IN  IF e.exc THEN <<>>
             ELSE << [name     |-> IF dom.name.some THEN dom.name.s ELSE S_Unknown,
                      power    |-> None,
                      energy_j |-> DivBy(e.val, 1000),
                      note     |-> "energy is cumulative; sample over time to compute watts"] >>

\* The entry of one directory of /sys/class/powercap/intel-rapl: nothing for
\* an entry that is no intel-rapl:* domain, has no energy_uj, or whose read
\* raised (except Exception: continue).
RaplEntry(dom) ==
    IF ~dom.isRapl \/ dom.energy.st = "absent" THEN <<>>
    ELSE LET e == ReadNumber(dom.energy)
         IN  IF e.exc THEN <<>>
             ELSE << [name     |-> IF dom.name.some THEN dom.name.s ELSE S_Unknown,
                      power    |-> None,
                      energy_j |-> DivBy(e.val, 1000000),
                      note     |-> "energy is cumulative; sample over time to compute watts"] >>

IsCpuDomain(entry) ==
    Contains(Lower(entry.name), K_package) \/ Contains(Lower(entry.name), K_cpu)

RaplEntries(tree) ==
    IF ~tree.exists THEN <<>>
    ELSE Flatten([i \in DOMAIN tree.doms |-> RaplEntry(tree.doms[i])])

_get_rapl_power(tree) ==
    Ok([cpu    |-> SelectSeq(RaplEntries(tree), IsCpuDomain),
        system |-> SelectSeq(RaplEntries(tree), LAMBDA e : ~IsCpuDomain(e))])

\* The loop over the lines "index, power.draw" of nvidia-smi: [exc, val]
\* with val the entries appended before a conversion raised.
RECURSIVE GpuPowerLoop(_, _)
GpuPowerLoop(gpus, i) ==
    IF i > Len(gpus) THEN Ok(<<>>)
    ELSE IF gpus[i].power.bad THEN Raise(<<>>)
    ELSE LET rest == GpuPowerLoop(gpus, i + 1)
             e    == [index  |-> i - 1,
                      vendor |-> "NVIDIA",
                      power  |-> IF gpus[i].power.na THEN None
                                 ELSE Num(gpus[i].power.v, 1)]
         IN  [exc |-> rest.exc, val |-> <<e>> \o rest.val]

\* gpu_power is filled in place, so what was appended before an exception
\* is still returned.
_get_gpu_power(tool) ==
    IF RunRaises(tool) \/ tool.st # "ok" THEN Ok(<<>>)
    ELSE Ok(GpuPowerLoop(tool.gpus, 1).val)


\* total_power += x["power"] raises TypeError when the value is None.
AddPower(total, entry) ==
    IF total.exc \/ ~entry.power.some THEN Raise(None)
    ELSE IF total.val.d = entry.power.d
    THEN Ok(Num(total.val.n + entry.power.n, total.val.d))
    ELSE Ok(Num(total.val.n * entry.power.d + entry.power.n * total.val.d,
                total.val.d * entry.power.d))

\* The gpu loop adds only a truthy power.
AddGpuPower(total, entry) ==
    IF total.exc THEN total
    ELSE IF Truthy(entry.power) THEN AddPower(total, entry)
    ELSE total

\* for x in power_info.get(key, []): total_power += x["power"]
RECURSIVE SumPower(_, _)
SumPower(total, list) ==
    IF list = <<>> THEN total
    ELSE SumPower(AddPower(total, Head(list)), Tail(list))

RECURSIVE SumGpuPower(_, _)
SumGpuPower(total, list) ==
    IF list = <<>> THEN total
    ELSE SumGpuPower(AddGpuPower(total, Head(list)), Tail(list))

_calculate_total_power(power_info) ==
    LET t == SumPower(SumGpuPower(SumPower(Ok(Num(0, 1)), power_info.cpu),
                                  power_info.gpu),
                      ListOf(power_info, "hwmon"))
    IN  IF t.exc THEN None
        ELSE IF NumLt(Num(0, 1), t.val) THEN t.val ELSE None

NoPower == [cpu |-> <<>>, gpu |-> <<>>, system |-> <<>>, total |-> None]

_get_windows_power ==
    [cpu |-> <<>>, gpu |-> <<>>, system |-> <<>>, total |-> None,
     note |-> "Windows power monitoring not implemented"]

get_power(plat, tree, raplTree, tool) ==
    LET hwmon_power == _get_hwmon_power(tree)
        rapl_power  == _get_rapl_power(raplTree)
        gpu_power   == _get_gpu_power(tool)
        updated     == [cpu |-> rapl_power.val.cpu, gpu |-> gpu_power.val,
                        system |-> <<>>, total |-> None,
                        hwmon |-> hwmon_power.val, rapl |-> rapl_power.val]
        body ==
            IF plat = "Linux"
            THEN IF hwmon_power.exc \/ rapl_power.exc \/ gpu_power.exc
                 THEN Raise(NoPower)
                 ELSE Ok([updated EXCEPT !.total = _calculate_total_power(updated)])
            ELSE IF plat = "Windows" THEN Ok(_get_windows_power)
            ELSE Ok(NoPower)
    IN  IF body.exc THEN Ok(WithError(NoPower, "Failed to get power info"))
        ELSE body

-----------------------------------------------------------------------------
(* volt_info.py: display                                                   *)

\* it.get(key) for a key that holds a string / a float
GetStr(it, key) == IF key \in DOMAIN it THEN Str(it[key]) ELSE NoStr
GetNum(it, key) == IF key \in DOMAIN it THEN it[key] ELSE None

\* a or b on optional strings ('' and None are falsy)
OrStr(a, b) == IF a.some /\ a.s # S_empty THEN a ELSE b

\* One part of the line _compact_join builds. val is printed with three
\* decimals and the unit; na is the text "N/A" in its place.
JoinPart(it) ==
    LET label == OrStr(GetStr(it, "label"),
                 OrStr(GetStr(it, "file"),
                 OrStr(GetStr(it, "name"), GetStr(it, "sensor"))))
        val   == Or(GetNum(it, "voltage"), Or(GetNum(it, "power"), GetNum(it, "energy_j")))
    IN  IF ~val.some
        THEN [label |-> label, na |-> TRUE, val |-> None, unit |-> ""]
        ELSE IF "voltage" \in DOMAIN it
                \/ (label.some /\ label.s # S_empty /\ StartsWith(label.s, K_in))
        THEN [label |-> label, na |-> FALSE, val |-> val, unit |-> " V"]
        ELSE IF "power" \in DOMAIN it
        THEN [label |-> label, na |-> FALSE, val |-> val, unit |-> " W"]
        ELSE IF "energy_j" \in DOMAIN it
        THEN [label |-> label, na |-> FALSE, val |-> val, unit |-> " J"]
        ELSE [label |-> label, na |-> FALSE, val |-> val, unit |-> ""]

max_items == 5

\* [none, parts, more]: the text "None" (none), or the parts joined by ", "
\* with "..." after them (more).
_compact_join(items) ==
    IF items = <<>> THEN [none |-> TRUE, parts |-> <<>>, more |-> FALSE]
    ELSE LET shown == SubSeq(items, 1, IF Len(items) < max_items THEN Len(items)
                                                                 ELSE max_items)
         IN  [none  |-> FALSE,
              parts |-> [i \in DOMAIN shown |-> JoinPart(shown[i])],
              more  |-> Len(items) > max_items]

\* volt_items: for key in ("hwmon", "sensors", "cpu", "gpu", "memory")
VoltItems(volt) ==
    ListOf(volt, "hwmon") \o ListOf(volt, "sensors") \o ListOf(volt, "cpu")
    \o ListOf(volt, "gpu") \o ListOf(volt, "memory")

\* power_items: gpu and hwmon, else the CPU entries of rapl
PowerItems(power) ==
    LET inst == ListOf(power, "gpu") \o ListOf(power, "hwmon")
    IN  IF inst # <<>> THEN inst
        ELSE IF "rapl" \in DOMAIN power THEN power.rapl.cpu
        ELSE <<>>

get_volt_power_summary(plat, tree, sens, raplTree, tool) ==
    LET volt  == get_voltages(plat, tree, sens)
        power == get_power(plat, tree, raplTree, tool)
    IN  IF volt.exc \/ power.exc THEN Raise(<<>>)
        ELSE Ok([volt_line  |-> _compact_join(VoltItems(volt.val)),
                 power_line |-> _compact_join(PowerItems(power.val))])

\* One line of get_power_display, or nothing for an item without a number.
DisplayLine(it) ==
    LET name == OrStr(GetStr(it, "name"),
                OrStr(GetStr(it, "sensor"),
                      IF "index" \in DOMAIN it THEN Str(IntText(it.index)) ELSE Str(S_empty)))
    IN  IF GetNum(it, "power").some
        THEN << [name |-> name, val |-> it.power, unit |-> " W", cumulative |-> FALSE] >>
        ELSE IF GetNum(it, "energy_j").some
        THEN << [name |-> name, val |-> it.energy_j, unit |-> " J", cumulative |-> TRUE] >>
        ELSE <<>>

DisplayLines(items) == Flatten([i \in DOMAIN items |-> DisplayLine(items[i])])

\* The sections whose value is a list; "rapl" holds a dict and is skipped.
DisplaySections == <<"cpu", "gpu", "hwmon", "system">>

\* The dict section -> lines (a section without lines is left out) and the
\* line of the total (None: no "total" key).
get_power_display(plat, tree, raplTree, tool) ==
    LET raw == get_power(plat, tree, raplTree, tool)
    IN  IF raw.exc THEN Raise(<<>>)
        ELSE Ok([lines |-> [sec \in {x \in Range(DisplaySections) :
                                        DisplayLines(ListOf(raw.val, x)) # <<>>}
                              |-> DisplayLines(ListOf(raw.val, sec))],
                 total |-> IF Truthy(raw.val.total) THEN raw.val.total ELSE None])

-----------------------------------------------------------------------------
(* remote_monitor.py                                                       *)

\* The remote side is [ctor, link, ...]:
\*   ctor  "raise" when Connection(host=..., user=...) itself raises (for
\*         instance a host text fabric rejects), else "ok";
\*   link  "down" when no session can be established (refused, unreachable,
\*         authentication).  fabric opens the session on the first run():
\*         Connection() and `with` do not connect;
\* and, per command, what its standard output holds once the session is up.
\* A command that fails, times out or is not installed prints nothing.

\* conn.run(cmd) raising, caught by _run: returns ""
RunFails(r) == r.link = "down"

\* _run(conn, cmd) for a command whose output is the text `out`
_run(r, out) == IF RunFails(r) THEN "" ELSE out

\* x or None on a text
TextOrNone(t) == IF t = "" THEN [some |-> FALSE, s |-> ""] ELSE [some |-> TRUE, s |-> t]

\* py.st: "json" (the dict printed by the remote python3), "garbage" (text
\* json.loads rejects), "empty"
_get_os_info(r) ==
    IF ~RunFails(r) /\ r.py.st = "json"
    THEN [OS_Name      |-> [some |-> TRUE, s |-> r.py.name],
          Version      |-> [some |-> TRUE, s |-> r.py.version],
          Architecture |-> [some |-> TRUE, s |-> r.py.machine]]
    ELSE [OS_Name      |-> TextOrNone(_run(r, r.uname_s)),
          Version      |-> TextOrNone(_run(r, r.uname_r)),
          Architecture |-> TextOrNone(_run(r, r.uname_m))]

\* int((info.get(k) or "0").split()[0]) if info.get(k) else None, for a
\* field [st, v]: st "absent", "ok" (the integer v), "malformed": [exc, val]
LscpuInt(f) ==
    IF f.st = "absent" THEN Ok([some |-> FALSE, v |-> 0])
    ELSE IF f.st = "ok" THEN Ok([some |-> TRUE, v |-> f.v])
    ELSE Raise([some |-> FALSE, v |-> 0])

\* _parse_lscpu(text) for the fields the text holds (none when it is empty)
_parse_lscpu(hasText, lscpu) ==
    LET info    == IF hasText THEN lscpu
                   ELSE [model |-> "", arch |-> "", sockets |-> Absent,
                         cores_per_socket |-> Absent, cpus |-> Absent]
        base    == [brand |-> TextOrNone(info.model), arch |-> TextOrNone(info.arch)]
        sockets == LscpuInt(info.sockets)
        cps     == LscpuInt(info.cores_per_socket)
        threads == LscpuInt(info.cpus)
        hasCores   == sockets.val.some /\ sockets.val.v # 0
                      /\ cps.val.some /\ cps.val.v # 0
        hasThreads == threads.val.some /\ threads.val.v # 0
    IN  IF sockets.exc \/ cps.exc \/ threads.exc THEN base
        ELSE [k \in {"brand", "arch"} \cup (IF hasCores THEN {"cores"} ELSE {})
                    \cup (IF hasThreads THEN {"threads"} ELSE {}) |->
                IF k = "cores" THEN sockets.val.v * cps.val.v
                ELSE IF k = "threads" THEN threads.val.v
                ELSE base[k]]

_get_cpu_info(r) == _parse_lscpu(~RunFails(r) /\ r.lscpu_ok, r.lscpu)

\* round(x, 2) of n/d, in hundredths
RoundHundredths(n, d) ==
    LET q == (100 * n) \div d
        rr == (100 * n) % d
    IN  IF 2 * rr > d THEN q + 1
        ELSE IF 2 * rr < d THEN q
        ELSE IF q % 2 = 0 THEN q ELSE q + 1

\* free.st: "digits" (the total, here in MiB: the text is mib * 2^20 bytes),
\* "garbage", "empty".  round(total / 1024**3, 2)
_get_mem_info(r) ==
    IF ~RunFails(r) /\ r.free.st = "digits"
    THEN [Total_GB |-> Num(RoundHundredths(r.free.mib, 1024), 100)]
    ELSE [Total_GB |-> None]

NoRemoteGpu == [Name |-> NoStr, Vendor |-> NoStr, Memory |-> NoStr, Temperature |-> NoStr]

\* The text nvidia-smi prints on the remote side: its csv when it works,
\* nothing otherwise.
RemoteNvsmiParts(r) ==
    IF RunFails(r) \/ r.nvsmi.st # "ok" THEN << S_empty >>
    ELSE NvsmiParts(r.nvsmi.gpus)

S_VGA == <<"V","G","A"," ","c","o","m","p","a","t","i","b","l","e"," ","c","o","n","t","r","o","l","l","e","r">>

\* re.findall(r'"([^"]+)"', lspci) on the display lines of lspci -mm: the
\* quoted class, vendor and device of each line, in order.
RemoteLspciFields(r) ==
    IF RunFails(r) \/ r.lspci.st # "ok" THEN <<>>
    ELSE LET ds == SelectSeq(r.lspci.devs, LAMBDA d : d.display)
         IN  Flatten([i \in DOMAIN ds |-> << S_VGA, ds[i].vendor, ds[i].name >>])

_get_gpu_info(r) ==
    LET parts == RemoteNvsmiParts(r)
        m     == RemoteLspciFields(r)
    IN  IF parts # << S_empty >> /\ Len(parts) >= 3
        THEN [Name        |-> Str(parts[1]),
              Vendor      |-> Str(S_NVIDIA),
              Memory      |-> Str(parts[2] \o S_MB),
              Temperature |-> Str(parts[3] \o S_degC)]
        ELSE IF Len(m) >= 3
        THEN [NoRemoteGpu EXCEPT !.Vendor = Str(m[2]), !.Name = Str(m[3])]
        ELSE NoRemoteGpu

K_package_id == <<"p","a","c","k","a","g","e"," ","i","d">>
K_tctl       == <<"t","c","t","l">>
K_tdie       == <<"t","d","i","e">>
K_cpu_temp   == <<"c","p","u"," ","t","e","m","p">>
K_core_0     == <<"c","o","r","e"," ","0">>

EndsWith(hay, suffix) ==
    /\ Len(hay) >= Len(suffix)
    /\ SubSeq(hay, Len(hay) - Len(suffix) + 1, Len(hay)) = suffix

\* egrep -i 'package id|tctl|tdie|cpu temp|cpu:\s*\+|core 0' on one line of
\* sensors -A; a reading is printed "label:  +value unit".
EgrepMatches(l) ==
    LET text == Lower(IF l.kind = "reading" THEN l.label ELSE l.chip)
    IN  /\ l.kind # "blank"
        /\ \/ AnyIn({K_package_id, K_tctl, K_tdie, K_cpu_temp, K_core_0}, text)
           \/ l.kind = "reading" /\ EndsWith(text, K_cpu) /\ l.val >= 0

\* float(m.group(1)) for re.search(r'([0-9]+\.?[0-9]*)\s*°?C', line): the
\* value of a reading in degrees, without its sign.
LineCelsius(l) ==
    IF l.kind = "reading" /\ l.unit = "C"
    THEN Num(IF l.val < 0 THEN 0 - l.val ELSE l.val, 1000)
    ELSE None

_get_temp_summary(r) ==
    LET lines == IF RunFails(r) \/ r.sensors.st # "ok" THEN <<>> ELSE r.sensors.lines
        i     == FirstIndex([k \in DOMAIN lines |-> EgrepMatches(lines[k])])
        gpus  == IF RunFails(r) \/ r.nvsmi.st # "ok" THEN <<>> ELSE r.nvsmi.gpus
    IN  [CPU |-> IF i = 0 THEN None ELSE LineCelsius(lines[i]),
         GPU |-> IF gpus # <<>> /\ FieldIsNumber(gpus[1].temp) /\ gpus[1].temp.v >= 0
                 THEN Num(gpus[1].temp.v, 1) ELSE None,
         RAM |-> None,
         VRM |-> None]

\* a or b on texts
OrText(a, b) == IF a # "" THEN a ELSE b

\* The dict of the keys that got a value, or the note in its place.
_get_motherboard(r) ==
    LET vendor  == OrText(_run(r, r.dmi.board_vendor), _run(r, r.dmi.chassis_vendor))
        product == OrText(_run(r, r.dmi.board_name), _run(r, r.dmi.product_name))
        bios    == OrText(_run(r, r.dmi.bios_version), _run(r, r.dmi.bios_date))
        keys    == (IF vendor # "" THEN {"manufacturer"} ELSE {})
                   \cup (IF product # "" THEN {"product"} ELSE {})
                   \cup (IF bios # "" THEN {"bios_version"} ELSE {})
    IN  IF keys = {} THEN [note |-> "Motherboard info not available"]
        ELSE [k \in keys |-> IF k = "manufacturer" THEN vendor
                             ELSE IF k = "product" THEN product ELSE bios]

\* target = ip or host
TargetOf(host, ip) == IF ip # "" THEN ip ELSE host

\* The body of the `with Connection(...)` block: raises when Connection()
\* does; the helpers catch what conn.run raises.
QueryRemoteBody(host, user, ip, r) ==
    IF r.ctor = "raise" THEN Raise(<<>>)
    ELSE Ok([Host         |-> TargetOf(host, ip),
             User         |-> user,
             OS_Info      |-> _get_os_info(r),
             CPU_Info     |-> _get_cpu_info(r),
             Memory_Info  |-> _get_mem_info(r),
             GPU_Info     |-> _get_gpu_info(r),
             Temperatures |-> _get_temp_summary(r),
             Motherboard  |-> _get_motherboard(r)])

\* {"error": f"SSH connection failed to {target} as {user}: ..."}
ConnectionErrorResult(host, user, ip) ==
    [error |-> [target |-> TargetOf(host, ip), user |-> user]]

\* query_remote without its try/except
query_remote_uncaught(host, user, ip, r) == QueryRemoteBody(host, user, ip, r)

query_remote(host, user, ip, r) ==
    LET body == QueryRemoteBody(host, user, ip, r)
    IN  IF body.exc THEN Ok(ConnectionErrorResult(host, user, ip)) ELSE body

-----------------------------------------------------------------------------
(* The machines the probes are run on                                      *)

MaxHwmon == 2    \* devices under /sys/class/hwmon
MaxZones == 1    \* thermal zones
MaxRapl  == 2    \* energy-counter domains
MaxGpus  == 2    \* GPUs nvidia-smi lists
MaxCards == 2    \* /sys/class/drm/card*
MaxDisplay == 2  \* display devices lspci lists

\* All sequences of length 0..n of elements of S
SeqsUpTo(S, n) == UNION {[1..k -> S] : k \in 0..n}

Ok_(v) == Content("ok", v)
Denied    == Content("denied", 0)
Malformed == Content("malformed", 0)
Empty     == Content("empty", 0)

File(kind, idx, content, label, crit) ==
    [kind |-> kind, idx |-> idx, content |-> content, label |-> label,
     crit |-> crit, max |-> Absent]

Dev(name, files) == [isdir |-> TRUE, name |-> name, files |-> files]

\* rising: the sensors warm up while they are being read
NoHwmon   == [exists |-> FALSE, devs |-> <<>>, rising |-> FALSE]
Hwmon(ds) == [exists |-> TRUE, devs |-> ds, rising |-> FALSE]
Rising(tree) == [tree EXCEPT !.rising = TRUE]

NoThermal == [exists |-> FALSE, zones |-> <<>>]
NoRapl    == [exists |-> FALSE, doms |-> <<>>]
NoTool    == [st |-> "missing", lines |-> <<>>, gpus |-> <<>>, devs |-> <<>>]
NoDrm     == [cards |-> <<>>, pciVendor |-> [a \in {} |-> S_empty]]

Field(v)  == [na |-> FALSE, bad |-> FALSE, v |-> v]
FieldNA   == [na |-> TRUE, bad |-> FALSE, v |-> 0]
FieldBad  == [na |-> FALSE, bad |-> TRUE, v |-> 0]

NoRemote ==
    [ctor |-> "ok", link |-> "down",
     py |-> [st |-> "empty", name |-> "", version |-> "", machine |-> ""],
     uname_s |-> "", uname_r |-> "", uname_m |-> "",
     lscpu_ok |-> FALSE,
     lscpu |-> [model |-> "", arch |-> "", sockets |-> Absent,
                cores_per_socket |-> Absent, cpus |-> Absent],
     free |-> [st |-> "empty", mib |-> 0],
     nvsmi |-> NoTool, lspci |-> NoTool, sensors |-> NoTool,
     dmi |-> [board_vendor |-> "", chassis_vendor |-> "", board_name |-> "",
              product_name |-> "", bios_version |-> "", bios_date |-> ""]]

\* ---- the sensor tree, several devices ----
RawTemps == {40000, 55000}

TreeDevices ==
    {Dev(Str(S_coretemp), << File("temp", 1, Ok_(a), Str(S_PackageId0), Ok_(100000)),
                             File("temp", 2, Ok_(b), Str(S_Core0), Absent) >>) :
        a \in RawTemps, b \in {40000}}
    \cup {Dev(Str(nl[1]), << File("temp", 1, Ok_(a), nl[2], Absent) >>) :
            a \in {55000},
            nl \in { <<S_coretemp, Str(S_Core0)>>,
                     <<S_amdgpu, Str(S_edge)>>,
                     <<S_amdgpu, Str(K_mem)>>,
                     <<S_nouveau, Str(S_GPUcore)>>,
                     <<K_acpitz, NoStr>>,
                     <<S_nvme, Str(S_Composite)>>,
                     <<S_asusec, Str(S_VRM)>>,
                     <<S_asusec, Str(S_DRAM)>>,
                     <<S_nct, Str(S_Vcore)>> }}

TreeSet == {Hwmon(ds) : ds \in SeqsUpTo(TreeDevices, MaxHwmon)}


\* ---- one device in detail, beside the other temperature sources ----
RawDetail == {-5000, 0, 40, 1000, 1001, 45000}

DetailContents == {Ok_(v) : v \in RawDetail} \cup {Denied, Malformed}

DetailDevices ==
    {Dev(nl[1], << File("temp", 1, c, nl[2], k) >>) :
        c \in DetailContents,
        k \in {Absent, Ok_(45000), Malformed},
        nl \in { <<Str(S_coretemp), Str(S_PackageId0)>>,
                 <<Str(K_acpitz), NoStr>>,
                 <<NoStr, NoStr>> }}
    \cup {[isdir |-> FALSE, name |-> NoStr, files |-> <<>>]}

Zone(idx, temp, type) == [isZone |-> TRUE, idx |-> idx, temp |-> temp, type |-> type]
CoolingDevice         == [isZone |-> FALSE, idx |-> 0, temp |-> Absent, type |-> NoStr]

ZoneSet ==
    {Zone(0, c, t) : c \in {Ok_(47000), Ok_(900), Denied, Absent},
                     t \in {Str(S_x86_pkg_temp), NoStr}}
    \cup {CoolingDevice}

ThermalSet ==
    {NoThermal} \cup {[exists |-> TRUE, zones |-> zs] : zs \in SeqsUpTo(ZoneSet, MaxZones)}

S_chip_coretemp == <<"c","o","r","e","t","e","m","p","-","i","s","a","-","0","0","0","0">>
S_adapter       == <<"A","d","a","p","t","e","r"," ","I","S","A"," ","a","d","a","p","t","e","r">>

Line(kind, indent, chip, label, val, unit, crit) ==
    [kind |-> kind, indent |-> indent, chip |-> chip, label |-> label,
     val |-> val, unit |-> unit, crit |-> crit, max |-> None]

ChipLine    == Line("chip", 0, S_chip_coretemp, S_empty, 0, "", None)
AdapterLine == Line("adapter", 0, S_adapter, S_empty, 0, "", None)
BlankLine   == Line("blank", 0, S_empty, S_empty, 0, "", None)
ReadingLine(indent, label, val, unit, crit) ==
    Line("reading", indent, S_empty, label, val, unit, crit)

\* What `sensors -A` prints for one chip: its readings start in column 0,
\* or are indented.
SensorsOutputs ==
    {<< ChipLine, AdapterLine,
        ReadingLine(ind, S_PackageId0, v, "C", Num(100000, 1000)),
        ReadingLine(ind, S_Core0, 43000, "C", None),
        BlankLine >> : ind \in {0, 2}, v \in {45000, 52000}}
    \cup { <<>>, << ChipLine, AdapterLine, ReadingLine(0, S_Vcore, 1020, "V", None) >> }

SensorsSet ==
    {[st |-> st, lines |-> <<>>, gpus |-> <<>>, devs |-> <<>>] :
        st \in {"missing", "timeout", "fail"}}
    \cup {[st |-> "ok", lines |-> ls, gpus |-> <<>>, devs |-> <<>>] : ls \in SensorsOutputs}

Gpu(name, mem, temp, power) == [name |-> name, mem |-> mem, temp |-> temp, power |-> power]

GpuSet ==
    {Gpu(S_GeForce, Field(8192), t, p) :
        t \in {Field(61), FieldNA}, p \in {Field(35), FieldNA}}

NvsmiSet ==
    {[st |-> st, lines |-> <<>>, gpus |-> <<>>, devs |-> <<>>] :
        st \in {"missing", "timeout", "fail"}}
    \cup {[st |-> "ok", lines |-> <<>>, gpus |-> gs, devs |-> <<>>] :
            gs \in SeqsUpTo(GpuSet, MaxGpus)}


\* ---- voltages and power ----
S_vddgfx == <<"v","d","d","g","f","x">>
S_PPT    == <<"P","P","T">>

RawVolts == {50, 100, 101, 1200, 12000}

VoltDevices ==
    {Dev(Str(S_nct), << File("in", 0, c, l, Absent) >>) :
        c \in {Ok_(v) : v \in RawVolts} \cup {Denied},
        l \in {Str(S_Vcore)}}
    \cup {Dev(Str(S_nct), << File("in", 0, Ok_(1200), NoStr, Absent) >>)}
    \cup {Dev(Str(S_amdgpu), << File("in", 0, Ok_(900), Str(S_vddgfx), Absent),
                                File("temp", 1, Ok_(51000), Str(S_edge), Absent) >>)}

VoltTreeSet == {Hwmon(ds) : ds \in SeqsUpTo(VoltDevices, MaxHwmon)}

PowerTreeSet ==
    {NoHwmon}
    \cup {Hwmon(<< Dev(Str(S_amdgpu), << File("power", 1, c, l, Absent) >>) >>) :
            c \in {Ok_(35000000), Ok_(0)}, l \in {Str(S_PPT), NoStr}}

Domain(name, energy) == [isRapl |-> TRUE, name |-> name, energy |-> energy]

DomainSet ==
    {Domain(n, e) : n \in {Str(S_package0), Str(S_psys), NoStr},
                    e \in {Ok_(5000000), Denied}}
    \cup {Domain(Str(S_package0), Ok_(0)), Domain(Str(S_package0), Absent),
          [isRapl |-> FALSE, name |-> NoStr, energy |-> Absent]}

RaplSet ==
    {NoRapl} \cup {[exists |-> TRUE, doms |-> ds] : ds \in SeqsUpTo(DomainSet, MaxRapl)}

NvsmiPowerSet ==
    {NoTool}
    \cup {[st |-> "ok", lines |-> <<>>, devs |-> <<>>,
           gpus |-> << Gpu(S_GeForce, Field(8192), Field(61), pw) >>] :
            pw \in {Field(35), FieldNA, FieldBad}}

\* ---- display devices ----
LspciDev(dom, addr, vendor, name) ==
    [display |-> TRUE, bridge |-> FALSE, bus |-> [dom |-> dom, addr |-> addr],
     vendor |-> vendor,
     name |-> name]

LspciDevSet ==
    {LspciDev(FALSE, "01:00.0", S_NvidiaCorp, S_GeForce),
     LspciDev(TRUE, "03:00.0", S_AmdCorp, S_Navi),
     LspciDev(FALSE, "00:02.0", S_IntelCorp, S_UHD),
     LspciDev(FALSE, "00:02.0", S_IntelCorpOld, S_UHD)}

LspciSet ==
    {NoTool}
    \cup {[st |-> "ok", lines |-> <<>>, gpus |-> <<>>, devs |-> ds] :
            ds \in SeqsUpTo(LspciDevSet, MaxDisplay)}

Card(bus, hwmons) ==
    [isdir |-> TRUE, path |-> IF bus.some THEN << bus.addr >> ELSE <<>>,
     hwmons |-> hwmons]

\* a card behind the bridge (root port) at `bridge`
CardBehind(bridge, addr, hwmons) ==
    [isdir |-> TRUE, path |-> << bridge, addr >>, hwmons |-> hwmons]

PciVendors ==
    [a \in {"01:00.0", "03:00.0", "00:02.0", "00:01.0"} |->
        IF a = "01:00.0" THEN V_10de ELSE IF a = "03:00.0" THEN V_1002 ELSE V_8086]

\* one card, every kind of temperature file
RawGpuTemps == {40, 1000, 1001, 45678, 65432}

CardDetailSet ==
    {Card(Addr("03:00.0"), << fs >>) :
        fs \in {<< Ok_(v) >> : v \in RawGpuTemps}
               \cup { << Empty, Ok_(52000) >>, << Denied >>, << Malformed, Ok_(-5000) >> }}

\* several cards
CardSet ==
    {Card(Addr("01:00.0"), << << Ok_(45000) >> >>),
     Card(Addr("03:00.0"), << << Ok_(60000) >> >>),
     Card(NoAddr, << << Ok_(52000) >> >>),
     Card(Addr("00:02.0"), <<>>)}

DrmSet ==
    {[cards |-> cs, pciVendor |-> pv] :
        cs \in SeqsUpTo(CardSet, MaxCards),
        pv \in {PciVendors, [a \in {} |-> S_empty]}}


\* ---- the remote host ----
RemoteUp == [NoRemote EXCEPT !.link = "up"]

RemoteSystemSet ==
    {[RemoteUp EXCEPT !.py = py, !.uname_s = un[1], !.uname_r = un[2], !.uname_m = un[3],
                      !.lscpu_ok = lc[1], !.lscpu = lc[2], !.free = fr, !.dmi = dm] :
        py \in {[st |-> "json", name |-> "Linux", version |-> "#1 SMP", machine |-> "x86_64"],
                [st |-> "garbage", name |-> "", version |-> "", machine |-> ""],
                [st |-> "empty", name |-> "", version |-> "", machine |-> ""]},
        un \in {<<"Linux", "6.1.0", "x86_64">>, <<"", "", "">>},
        lc \in {<<FALSE, NoRemote.lscpu>>,
                <<TRUE, [model |-> "Ryzen 5", arch |-> "x86_64", sockets |-> Ok_(1),
                         cores_per_socket |-> Ok_(6), cpus |-> Ok_(12)]>>,
                <<TRUE, [model |-> "", arch |-> "x86_64", sockets |-> Malformed,
                         cores_per_socket |-> Ok_(6), cpus |-> Ok_(12)]>>,
                <<TRUE, [model |-> "Ryzen 5", arch |-> "", sockets |-> Absent,
                         cores_per_socket |-> Absent, cpus |-> Ok_(0)]>>},
        fr \in {[st |-> "digits", mib |-> 15872], [st |-> "digits", mib |-> 0],
                [st |-> "garbage", mib |-> 0], [st |-> "empty", mib |-> 0]},
        dm \in {NoRemote.dmi,
                [board_vendor |-> "ASUS", chassis_vendor |-> "", board_name |-> "B550",
                 product_name |-> "", bios_version |-> "1.2", bios_date |-> ""],
                [board_vendor |-> "", chassis_vendor |-> "Dell", board_name |-> "",
                 product_name |-> "", bios_version |-> "", bios_date |-> "01/02/2020"]}}

RemoteSensorSet ==
    {[RemoteUp EXCEPT !.nvsmi = nv, !.lspci = lp, !.sensors = se] :
        nv \in {NoTool, [NoTool EXCEPT !.st = "fail"]}
               \cup {[st |-> "ok", lines |-> <<>>, devs |-> <<>>, gpus |-> gs] :
                        gs \in { <<>>, << Gpu(S_GeForce, Field(8192), Field(61), Field(35)) >>,
                                 << Gpu(S_GeForce, FieldNA, FieldNA, FieldNA) >> }},
        lp \in {NoTool, [st |-> "ok", lines |-> <<>>, gpus |-> <<>>,
                         devs |-> << LspciDev(FALSE, "03:00.0", S_AmdCorp, S_Navi) >>]},
        se \in SensorsSet}

RemoteSet ==
    {NoRemote, [NoRemote EXCEPT !.ctor = "raise"]} \cup RemoteSystemSet \cup RemoteSensorSet

Hosts == {"pc1"}
Users == {"root", "alice"}
Ips   == {"", "10.0.0.5"}

-----------------------------------------------------------------------------
(* motherboard_info.py and memory_info.py                                  *)

P_Manufacturer   == <<"M","a","n","u","f","a","c","t","u","r","e","r",":">>
P_ProductName    == <<"P","r","o","d","u","c","t"," ","N","a","m","e",":">>
P_Version        == <<"V","e","r","s","i","o","n",":">>
P_Type           == <<"T","y","p","e",":">>
P_Speed          == <<"S","p","e","e","d",":">>
P_Rank           == <<"R","a","n","k",":">>
P_Channel        == <<"C","h","a","n","n","e","l",":">>
K_bios           == <<"b","i","o","s">>
K_DDR            == <<"D","D","R">>
K_ddr            == <<"d","d","r">>
K_Unknown        == <<"U","n","k","n","o","w","n">>
K_DIMM           == <<"D","I","M","M">>
K_bank           == <<"b","a","n","k">>
K_mhz            == <<"m","h","z">>
S_MHz            == <<" ","M","H","z">>
S_NoBoard        == <<"M","o","t","h","e","r","b","o","a","r","d"," ","i","n","f","o"," ","n","o","t"," ","a","v","a","i","l","a","b","l","e"," ","o","n"," ","t","h","i","s"," ","p","l","a","t","f","o","r","m">>
S_InstallTools   == <<"U","n","a","v","a","i","l","a","b","l","e"," ","(","i","n","s","t","a","l","l"," ","d","m","i","d","e","c","o","d","e"," ","o","r"," ","l","s","h","w",")">>
S_NeedSudo       == <<"R","e","q","u","i","r","e","s"," ","s","u","d","o"," ","t","o"," ","r","e","a","d"," ","d","m","i","d","e","c","o","d","e">>

IsSpace(c) == c \in {" ", "\t", "\n"}

RECURSIVE LStrip(_)
LStrip(s) == IF s # <<>> /\ IsSpace(Head(s)) THEN LStrip(Tail(s)) ELSE s

RECURSIVE RStrip(_)
RStrip(s) ==
    IF s # <<>> /\ IsSpace(s[Len(s)]) THEN RStrip(SubSeq(s, 1, Len(s) - 1)) ELSE s

\* s.strip()
Strip(s) == RStrip(LStrip(s))

\* Python truthiness of an optional string: None and '' are falsy.
StrTruthy(x) == x.some /\ x.s # <<>>

\* a or b on optional strings
StrOr(a, b) == IF StrTruthy(a) THEN a ELSE b

\* A file of /sys/class/dmi/id is NoStr (it cannot be opened) or Str(text).
_read_sys(file) == IF file.some THEN Str(Strip(file.s)) ELSE NoStr

\* line.split(':', 1)[1].strip() of a line that holds a colon
RECURSIVE AfterColon(_)
AfterColon(s) ==
    IF s = <<>> THEN <<>>
    ELSE IF Head(s) = ":" THEN Strip(Tail(s))
    ELSE AfterColon(Tail(s))

\* The lines of out whose stripped text starts with prefix (bs[i]: line i also
\* passes the rest of the branch's condition).
MatchingLines(lines, prefix, bs) ==
    {i \in DOMAIN lines : StartsWith(Strip(lines[i]), prefix) /\ bs[i]}

AllLines(lines) == [i \in DOMAIN lines |-> TRUE]

\* The value the loop leaves in res[key]: every matching line assigns it, so
\* the last one stays; NoStr when the key was never assigned.
LastValue(lines, prefix, bs) ==
    LET m == MatchingLines(lines, prefix, bs)
    IN  IF m = {} THEN NoStr
        ELSE Str(AfterColon(Strip(lines[CHOOSE i \in m : \A j \in m : j <= i])))

\* The value of the first matching line (the loop breaks there).
FirstValue(lines, prefix) ==
    LET m == MatchingLines(lines, prefix, AllLines(lines))
    IN  IF m = {} THEN NoStr
        ELSE Str(AfterColon(Strip(lines[CHOOSE i \in m : \A j \in m : i <= j])))

\* A dict of strings is a record of optional strings: NoStr is a key the dict
\* does not hold.
NoBoard ==
    [manufacturer |-> NoStr, product |-> NoStr, board_version |-> NoStr,
     bios_version |-> NoStr, chipset |-> NoStr, note |-> NoStr]

\* dmidecode is [st, t2, t0, t17]: the lines `dmidecode -t 2`, `-t 0` and
\* `-t 17` print when st = "ok".  [some, res]: some = FALSE is None.
_get_from_dmidecode(tool) ==
    IF tool.st # "ok" THEN [some |-> FALSE, res |-> NoBoard]
    ELSE LET out  == tool.t2
             bios == \E i \in DOMAIN out : Contains(Lower(out[i]), K_bios)
             res  == [NoBoard EXCEPT
                        !.manufacturer  = LastValue(out, P_Manufacturer, AllLines(out)),
                        !.product       = LastValue(out, P_ProductName, AllLines(out)),
                        !.board_version =
                            IF bios THEN LastValue(out, P_Version, AllLines(out))
                            ELSE NoStr,
                        !.bios_version  = FirstValue(tool.t0, P_Version)]
         IN  [some |-> res # NoBoard, res |-> res]

\* A line of lspci -mm is `bus "class" "vendor" "name"`; bridge: the line
\* holds 'Host bridge', 'ISA bridge' or 'Bridge'.  parts[3] is the vendor.
_get_chipset_from_lspci(lspciTool) ==
    IF RunRaises(lspciTool) \/ lspciTool.st # "ok" THEN NoStr
    ELSE LET m == {i \in DOMAIN lspciTool.devs : lspciTool.devs[i].bridge}
         IN  IF m = {} THEN NoStr
             ELSE Str(lspciTool.devs[CHOOSE i \in m : \A j \in m : i <= j].vendor)

get_motherboard_info(files, lspciTool) ==
    LET vendor       == StrOr(_read_sys(files.board_vendor), _read_sys(files.chassis_vendor))
        product      == StrOr(_read_sys(files.board_name), _read_sys(files.product_name))
        bios_version == StrOr(_read_sys(files.bios_version), _read_sys(files.bios_date))
        modalias     == _read_sys(files.modalias)
        chipset      == IF StrTruthy(modalias) THEN modalias
                        ELSE _get_chipset_from_lspci(lspciTool)
        info == [NoBoard EXCEPT
                    !.manufacturer = IF StrTruthy(vendor) THEN vendor ELSE NoStr,
                    !.product      = IF StrTruthy(product) THEN product ELSE NoStr,
                    !.bios_version = IF StrTruthy(bios_version) THEN bios_version ELSE NoStr,
                    !.chipset      = IF StrTruthy(chipset) THEN chipset ELSE NoStr]
    IN  IF info = NoBoard THEN [NoBoard EXCEPT !.note = Str(S_NoBoard)] ELSE info

\* re.search(r'(DDR[0-9]+)', line, re.IGNORECASE).group(1).upper()
SearchDDR(line) ==
    LET m == {i \in 1..(Len(line) - 3) :
                 /\ Lower(SubSeq(line, i, i + 2)) = K_ddr
                 /\ IsDigit(line[i + 3])}
    IN  IF m = {} THEN NoStr
        ELSE LET i == CHOOSE i \in m : \A j \in m : i <= j
             IN  Str(K_DDR \o DigitRun(SubSeq(line, i + 3, Len(line))))

\* re.search(r'([0-9]+)MHz', line, re.IGNORECASE).group(1) + ' MHz'
SearchMHz(line) ==
    LET run(i) == DigitRun(SubSeq(line, i, Len(line)))
        m == {i \in DOMAIN line :
                 /\ IsDigit(line[i])
                 /\ Len(line) >= i + Len(run(i)) + 2
                 /\ Lower(SubSeq(line, i + Len(run(i)), i + Len(run(i)) + 2)) = K_mhz}
    IN  IF m = {} THEN NoStr
        ELSE Str(run(CHOOSE i \in m : \A j \in m : i <= j) \o S_MHz)

\* The lshw loop: [Type, Frequency] after the lines, filled only where empty.
RECURSIVE LshwLoop(_, _)
LshwLoop(info, lines) ==
    IF lines = <<>> THEN info
    ELSE LET line   == Strip(Head(lines))
             mtype  == SearchDDR(line)
             mspeed == SearchMHz(line)
             next   ==
                IF Contains(line, K_DIMM) \/ Contains(Lower(line), K_bank)
                THEN [info EXCEPT
                        !.Type      = IF mtype.some /\ ~StrTruthy(info.Type)
                                      THEN mtype ELSE @,
                        !.Frequency = IF mspeed.some /\ ~StrTruthy(info.Frequency)
                                      THEN mspeed ELSE @]
                ELSE info
         IN  LshwLoop(next, Tail(lines))

\* The field left as it was found missing, whatever the tools did
MissingNote_none(v, dmidecode_path, dmidecode_failed, lshw_path) ==
    IF StrTruthy(v) THEN v ELSE NoStr

\* "Provide helpful messages if values remain missing", for one field
MissingNote(v, dmidecode_path, dmidecode_failed, lshw_path) ==
    IF StrTruthy(v) THEN v
    ELSE IF ~dmidecode_path /\ ~lshw_path THEN Str(S_InstallTools)
    ELSE IF dmidecode_path /\ dmidecode_failed THEN Str(S_NeedSudo)
    ELSE NoStr

\* vmem: psutil.virtual_memory() as [st, mib], the total being mib * 2^20
\* bytes.  The key 'Total (GB)' is the field Total.
get_memory_info(vmem, dmiTool, lshwTool) ==
    LET dmidecode_path   == dmiTool.st # "missing"
        dmidecode_failed == dmiTool.st \in {"fail", "timeout"}
        lshw_path        == lshwTool.st # "missing"
        out   == IF dmiTool.st = "ok" THEN dmiTool.t17 ELSE <<>>
        isDDR == [i \in DOMAIN out |-> Contains(Strip(out[i]), K_DDR)]
        known == [i \in DOMAIN out |-> ~Contains(Strip(out[i]), K_Unknown)]
        rank  == LastValue(out, P_Rank, AllLines(out))
        chan  == LastValue(out, P_Channel, AllLines(out))
        rankAt == MatchingLines(out, P_Rank, AllLines(out))
        chanAt == MatchingLines(out, P_Channel, AllLines(out))
        info0 == [Total     |-> IF vmem.st = "ok"
                                THEN Num(RoundHundredths(vmem.mib, 1024), 100) ELSE None,
                  Type      |-> LastValue(out, P_Type, isDDR),
                  Frequency |-> LastValue(out, P_Speed, known),
                  Channel   |-> IF rankAt = {} THEN chan
                                ELSE IF chanAt = {} THEN rank
                                ELSE IF \E i \in chanAt : \A j \in rankAt : j < i
                                THEN chan ELSE rank]
        info1 == IF (~StrTruthy(info0.Type) \/ ~StrTruthy(info0.Frequency))
                    /\ lshw_path /\ lshwTool.st = "ok"
                 THEN LshwLoop(info0, lshwTool.lines)
                 ELSE info0
        note(v) == MissingNote(v, dmidecode_path, dmidecode_failed, lshw_path)
    IN  Ok([info1 EXCEPT !.Type = note(@), !.Frequency = note(@)])

-----------------------------------------------------------------------------

(* The firmware sources                                                   *)

DmiFiles(bv, cv, bn, pn, bios, date, alias) ==
    [board_vendor |-> bv, chassis_vendor |-> cv, board_name |-> bn,
     product_name |-> pn, bios_version |-> bios, bios_date |-> date,
     modalias |-> alias]

NoDmi == DmiFiles(NoStr, NoStr, NoStr, NoStr, NoStr, NoStr, NoStr)

F_blank    == Str(<<"\n">>)
F_ASUS     == Str(<<"A","S","U","S","\n">>)
F_QEMU     == Str(<<"Q","E","M","U","\n">>)
F_B450     == Str(<<"B","4","5","0","M","\n">>)
F_bios     == Str(<<"2",".","1","0","\n">>)
F_date     == Str(<<"0","4","/","0","1","/","2","0","1","4","\n">>)
F_modalias == Str(<<"d","m","i",":","b","v","n","A","M","I","\n">>)

DmiSet ==
    {DmiFiles(bv, cv, bn, NoStr, b[1], b[2], alias) :
        bv \in {NoStr, F_blank, F_ASUS}, cv \in {NoStr, F_QEMU},
        bn \in {NoStr, F_B450},
        b \in {<<NoStr, NoStr>>, <<F_bios, NoStr>>, <<NoStr, F_date>>},
        alias \in {NoStr, F_modalias}}

NoDecode == [st |-> "missing", t2 |-> <<>>, t0 |-> <<>>, t17 |-> <<>>]

BoardLines ==
    << <<"B","a","s","e"," ","B","o","a","r","d"," ","I","n","f","o","r","m","a","t","i","o","n">>, <<"\t","M","a","n","u","f","a","c","t","u","r","e","r",":"," ","A","S","U","S","T","e","K">>,
       <<"\t","P","r","o","d","u","c","t"," ","N","a","m","e",":"," ","P","R","I","M","E"," ","B","4","5","0">>, <<"\t","V","e","r","s","i","o","n",":"," ","R","e","v"," ","1">> >>
BiosLines ==
    << <<"B","I","O","S"," ","I","n","f","o","r","m","a","t","i","o","n">>, <<"\t","V","e","n","d","o","r",":"," ","A","M","I">>, <<"\t","V","e","r","s","i","o","n",":"," ","2",".","1","0">>,
       <<"\t","F","i","r","m","w","a","r","e"," ","R","e","v","i","s","i","o","n",":"," ","5",".","1","7">> >>
DimmLines ==
    << <<"M","e","m","o","r","y"," ","D","e","v","i","c","e">>, <<"\t","T","y","p","e",":"," ","D","D","R","4">>, <<"\t","T","y","p","e"," ","D","e","t","a","i","l",":"," ","S","y","n","c","h","r","o","n","o","u","s">>,
       <<"\t","S","p","e","e","d",":"," ","2","4","0","0"," ","M","T","/","s">>, <<"\t","R","a","n","k",":"," ","1">> >>
EmptySlotLines ==
    << <<"M","e","m","o","r","y"," ","D","e","v","i","c","e">>, <<"\t","T","y","p","e",":"," ","U","n","k","n","o","w","n">>, <<"\t","S","p","e","e","d",":"," ","U","n","k","n","o","w","n">>,
       <<"\t","R","a","n","k",":"," ","U","n","k","n","o","w","n">> >>

DecodeSet ==
    {NoDecode, [NoDecode EXCEPT !.st = "fail"], [NoDecode EXCEPT !.st = "timeout"],
     [NoDecode EXCEPT !.st = "ok"]}
    \cup {[st |-> "ok", t2 |-> BoardLines, t0 |-> b, t17 |-> m] :
            b \in {BiosLines, <<>>},
            m \in {DimmLines, EmptySlotLines, EmptySlotLines \o DimmLines}}

NoLshw == [st |-> "missing", lines |-> <<>>]

LshwSet ==
    {NoLshw, [NoLshw EXCEPT !.st = "fail"], [NoLshw EXCEPT !.st = "timeout"]}
    \cup {[st |-> "ok", lines |-> ls] :
            ls \in {<<>>,
                    << <<"/","0","/","0"," ","m","e","m","o","r","y"," ","6","4","K","i","B"," ","B","I","O","S">>, <<"/","0","/","9"," ","m","e","m","o","r","y"," ","8","G","i","B"," ","S","y","s","t","e","m"," ","M","e","m","o","r","y">> >>,
                    << <<"/","0","/","9","/","0"," ","m","e","m","o","r","y"," ","8","G","i","B"," ","D","I","M","M"," ","D","D","R","4"," ","2","4","0","0","M","H","z">> >>,
                    << <<"/","0","/","9","/","0"," ","m","e","m","o","r","y"," ","8","G","i","B"," ","S","O","D","I","M","M"," ","d","d","r","3"," ","S","y","n","c","h","r","o","n","o","u","s"," ","1","6","0","0"," ","M","H","z"," ","(","0",".","6"," ","n","s",")">> >>,
                    << <<"/","0","/","9","/","0"," ","m","e","m","o","r","y"," ","[","e","m","p","t","y","]">>,
                       <<"/","0","/","9","/","1"," ","m","e","m","o","r","y"," ","4","G","i","B"," ","b","a","n","k"," ","1"," ","D","d","r","4"," ","2","6","6","6","m","h","z">> >>}}

OneVm == [st |-> "ok", mib |-> 7821]

VmSet == {OneVm, [st |-> "ok", mib |-> 128], [st |-> "fail", mib |-> 0]}

LspciBridge(addr, vendor, name) ==
    [display |-> FALSE, bridge |-> TRUE, bus |-> [dom |-> FALSE, addr |-> addr],
     vendor |-> vendor, name |-> name]

BridgeSet ==
    {NoTool,
     [NoTool EXCEPT !.st = "ok"],
     [NoTool EXCEPT !.st = "ok",
        !.devs = << LspciDev(FALSE, "00:02.0", S_IntelCorp, S_UHD),
                    LspciBridge("00:00.0", S_IntelCorp, S_HostBridge) >>],
     [NoTool EXCEPT !.st = "ok",
        !.devs = << LspciDev(FALSE, "01:00.0", S_NvidiaCorp, S_GeForce) >>]}

-----------------------------------------------------------------------------

(* The state machine                                                       *)

NotCalled == op = "none" /\ ret = <<>> /\ raised = FALSE /\ unclosed = 0

Machine(p, h, t, s, n, l, d, r, rm) ==
    /\ platform = p
    /\ hwmon = h
    /\ thermal = t
    /\ sensorsCmd = s
    /\ nvsmi = n
    /\ lspci = l
    /\ drm = d
    /\ rapl = r
    /\ remote = rm
    /\ dmi = NoDmi
    /\ dmidecode = NoDecode
    /\ lshw = NoLshw
    /\ vm = OneVm

\* The machine seen by the motherboard and memory probes.
Firmware(l, f, dd, lw, v) ==
    /\ platform = "Linux"
    /\ hwmon = NoHwmon
    /\ thermal = NoThermal
    /\ sensorsCmd = NoTool
    /\ nvsmi = NoTool
    /\ lspci = l
    /\ drm = NoDrm
    /\ rapl = NoRapl
    /\ remote = NoRemote
    /\ dmi = f
    /\ dmidecode = dd
    /\ lshw = lw
    /\ vm = v

OneCoretemp ==
    Hwmon(<< Dev(Str(S_coretemp),
                 << File("temp", 1, Ok_(55000), Str(S_PackageId0), Ok_(100000)) >>) >>)
OneAmdgpu ==
    Hwmon(<< Dev(Str(S_amdgpu), << File("temp", 1, Ok_(58000), Str(S_edge), Absent) >>) >>)
HotAmdgpu ==
    Hwmon(<< Dev(Str(S_amdgpu), << File("temp", 1, Ok_(70000), Str(S_edge), Absent) >>) >>)

TwoSensors ==
    Hwmon(<< Dev(Str(S_coretemp), << File("temp", 1, Ok_(55000), Str(S_Core0), Absent) >>),
             Dev(Str(S_amdgpu), << File("temp", 1, Ok_(58000), Str(S_edge), Absent) >>) >>)

OneSensors ==
    [NoTool EXCEPT !.st = "ok",
        !.lines = << ChipLine, AdapterLine, ReadingLine(0, S_Vcore, 1020, "V", None) >>]
OneNvidia ==
    [NoTool EXCEPT !.st = "ok",
        !.gpus = << Gpu(S_GeForce, Field(8192), Field(61), Field(35)) >>]
TwoDisplays ==
    [NoTool EXCEPT !.st = "ok",
        !.devs = << LspciDev(FALSE, "00:02.0", S_IntelCorp, S_UHD),
                    LspciDev(TRUE, "03:00.0", S_AmdCorp, S_Navi) >>]
TwoCards ==
    [cards |-> << Card(Addr("00:02.0"), <<>>),
                  Card(Addr("03:00.0"), << << Ok_(60000) >> >>) >>,
     pciVendor |-> PciVendors]
OneDecode ==
    [st |-> "ok", t2 |-> BoardLines, t0 |-> BiosLines, t17 |-> DimmLines]
OneDmi ==
    DmiFiles(F_ASUS, NoStr, F_B450, NoStr, F_bios, NoStr, F_modalias)
OneBridge ==
    [NoTool EXCEPT !.st = "ok",
        !.devs = << LspciBridge("00:00.0", S_IntelCorp, S_HostBridge) >>]
\* an AMD card on the root bus and an NVIDIA card behind a root port
BridgedCards ==
    [cards |-> << Card(Addr("03:00.0"), << << Ok_(45000) >> >>),
                  CardBehind("00:01.0", "01:00.0", << << Ok_(60000) >> >>) >>,
     pciVendor |-> PciVendors]

OneRapl ==
    [exists |-> TRUE, doms |-> << Domain(Str(S_package0), Ok_(5000000)) >>]

\* Each line varies some sources of the machine and leaves the others absent.
Init ==
    /\ NotCalled
    /\ \/ \E h \in TreeSet :
            Machine("Linux", h, NoThermal, NoTool, NoTool, NoTool, NoDrm, NoRapl, NoRemote)
       \/ \E d \in DetailDevices :
            Machine("Linux", Hwmon(<<d>>), NoThermal, NoTool, NoTool, NoTool, NoDrm,
                    NoRapl, NoRemote)
       \/ \E h \in {NoHwmon, OneCoretemp}, t \in ThermalSet :
            Machine("Linux", h, t, NoTool, NoTool, NoTool, NoDrm, NoRapl, NoRemote)
       \/ \E p \in {"Linux", "Windows", "Darwin"}, h \in {NoHwmon, OneAmdgpu, HotAmdgpu},
             s \in {NoTool, OneSensors}, n \in {NoTool, OneNvidia} :
            Machine(p, h, NoThermal, s, n, NoTool, NoDrm, NoRapl, NoRemote)
       \/ \E h \in {NoHwmon, OneAmdgpu, OneCoretemp}, s \in SensorsSet :
            Machine("Linux", h, NoThermal, s, NoTool, NoTool, NoDrm, NoRapl, NoRemote)
       \/ \E h \in {NoHwmon, OneAmdgpu}, n \in NvsmiSet :
            Machine("Linux", h, NoThermal, NoTool, n, NoTool, NoDrm, NoRapl, NoRemote)
       \/ \E h \in VoltTreeSet, s \in {NoTool, OneSensors} :
            Machine("Linux", h, NoThermal, s, NoTool, NoTool, NoDrm, NoRapl, NoRemote)
       \/ \E r \in RaplSet :
            Machine("Linux", NoHwmon, NoThermal, NoTool, NoTool, NoTool, NoDrm, r, NoRemote)
       \/ \E h \in PowerTreeSet, r \in {NoRapl, OneRapl}, n \in NvsmiPowerSet :
            Machine("Linux", h, NoThermal, NoTool, n, NoTool, NoDrm, r, NoRemote)
       \/ \E d \in DrmSet, l \in {NoTool, TwoDisplays} :
            Machine("Linux", NoHwmon, NoThermal, NoTool, NoTool, l, d, NoRapl, NoRemote)
       \/ \E l \in LspciSet, d \in {NoDrm, TwoCards, BridgedCards},
             n \in {NoTool, OneNvidia} :
            Machine("Linux", NoHwmon, NoThermal, NoTool, n, l, d, NoRapl, NoRemote)
       \/ \E c \in CardDetailSet, l \in {NoTool, TwoDisplays} :
            Machine("Linux", NoHwmon, NoThermal, NoTool, NoTool, l,
                    [cards |-> <<c>>, pciVendor |-> PciVendors], NoRapl, NoRemote)
       \/ \E rm \in RemoteSet :
            Machine("Linux", NoHwmon, NoThermal, NoTool, NoTool, NoTool, NoDrm, NoRapl, rm)
       \/ \E h \in {OneCoretemp, OneAmdgpu, TwoSensors}, n \in {NoTool, OneNvidia} :
            Machine("Linux", Rising(h), NoThermal, NoTool, n, NoTool, NoDrm, NoRapl,
                    NoRemote)
       \/ \E f \in DmiSet, dd \in {NoDecode, OneDecode} :
            Firmware(IF f.modalias.some THEN NoTool ELSE OneBridge, f, dd, NoLshw, OneVm)
       \/ \E l \in BridgeSet, dd \in DecodeSet, f \in {NoDmi, OneDmi} :
            Firmware(l, f, dd, NoLshw, OneVm)
       \/ \E dd \in DecodeSet, lw \in LshwSet :
            Firmware(NoTool, NoDmi, dd, lw, OneVm)
       \/ \E dd \in {NoDecode, OneDecode}, v \in VmSet :
            Firmware(NoTool, NoDmi, dd, NoLshw, v)

\* Returns that keeps what the previous operation left when another
\* operation ran before: a result that depends on the earlier call
Returns_stale(name, r) ==
    /\ op' = name
    /\ ret' = IF op \notin {"none", name} THEN ret ELSE r.val
    /\ raised' = r.exc
    /\ unclosed' = 0
    /\ UNCHANGED envVars

\* Every file, child process and session of the operation was opened in a
\* with-block or by subprocess.run / check_output, which release it before
\* the operation returns.
Returns(name, r) ==
    /\ op' = name
    /\ ret' = r.val
    /\ raised' = r.exc
    /\ unclosed' = 0
    /\ UNCHANGED envVars

\* The operation opened n files without a scope: each is closed when its
\* file object is finalized, at once under reference counting and at some
\* later collection otherwise, so at the return none or all are still open.
ReturnsLeaving(name, r, n) ==
    /\ op' = name
    /\ ret' = r.val
    /\ raised' = r.exc
    /\ unclosed' \in {0, n}
    /\ UNCHANGED envVars


-----------------------------------------------------------------------------
(* temp_info.py: get_temperature_summary                                   *)

\* for category, temp_list in temps.items(): the lists of the dict in its
\* insertion order, strings ('error', 'note') skipped
CategoryOrder ==
    <<"cpu", "gpu", "memory", "vrm", "motherboard", "storage", "other",
      "hwmon", "sensors">>

AllTemps(temps) ==
    Flatten([i \in DOMAIN CategoryOrder |-> ListOf(temps, CategoryOrder[i])])

SummaryIsCpu(t) == Contains(Lower(t.sensor), K_cpu) \/ Contains(Lower(t.label), K_core)
SummaryIsGpu(t) == Contains(Lower(t.sensor), K_gpu) \/ Contains(Lower(t.label), K_gpu)

\* temp.get("critical") and temp["temperature"] >= temp["critical"]
IsCriticalNow(t) == Truthy(t.critical) /\ NumLe(t.critical, t.temperature)

AlertOf(t) ==
    [sensor |-> t.sensor, label |-> t.label,
     temperature |-> t.temperature, critical |-> t.critical]

get_temperature_summary(temps) ==
    LET all_temps == AllTemps(temps)
        cpu_temps == Temperatures(SelectSeq(all_temps, SummaryIsCpu))
        gpu_temps == Temperatures(SelectSeq(all_temps, SummaryIsGpu))
        alerts    == SelectSeq(all_temps, IsCriticalNow)
    IN  [cpu_max         |-> IF cpu_temps = <<>> THEN None ELSE MaxOf(cpu_temps),
         gpu_max         |-> IF gpu_temps = <<>> THEN None ELSE MaxOf(gpu_temps),
         critical_alerts |-> [i \in DOMAIN alerts |-> AlertOf(alerts[i])],
         total_sensors   |-> Len(all_temps)]

Call_get_temperatures ==
    ReturnsLeaving("get_temperatures",
                   get_temperatures(platform, hwmon, thermal, sensorsCmd, nvsmi, lspci, drm),
                   IF platform = "Linux" THEN UnscopedOpens(nvsmi, drm) ELSE 0)

Call_get_quick_summary ==
    ReturnsLeaving("get_quick_summary",
                   get_quick_summary(platform, hwmon, thermal, sensorsCmd, nvsmi, lspci, drm),
                   IF platform = "Linux" THEN UnscopedOpens(nvsmi, drm) ELSE 0)

Call_get_temperature_summary ==
    ReturnsLeaving("get_temperature_summary",
                   Ok(get_temperature_summary(
                        get_temperatures(platform, hwmon, thermal, sensorsCmd,
                                         nvsmi, lspci, drm).val)),
                   IF platform = "Linux" THEN UnscopedOpens(nvsmi, drm) ELSE 0)

Call_get_gpu_info ==
    ReturnsLeaving("get_gpu_info", Ok(get_gpu_info(nvsmi, lspci, drm)),
                   UnscopedOpens(nvsmi, drm))

Call_get_motherboard_info ==
    Returns("get_motherboard_info", Ok(get_motherboard_info(dmi, lspci)))

Call_get_memory_info ==
    Returns("get_memory_info", get_memory_info(vm, dmidecode, lshw))

Call_get_voltages ==
    Returns("get_voltages", get_voltages(platform, hwmon, sensorsCmd))

Call_get_power ==
    Returns("get_power", get_power(platform, hwmon, rapl, nvsmi))

Call_get_volt_power_summary ==
    Returns("get_volt_power_summary",
            get_volt_power_summary(platform, hwmon, sensorsCmd, rapl, nvsmi))

Call_get_power_display ==
    Returns("get_power_display", get_power_display(platform, hwmon, rapl, nvsmi))

Call_query_remote ==
    \E host \in Hosts, user \in Users, ip \in Ips :
        Returns("query_remote", query_remote(host, user, ip, remote))

Next ==
    \/ Call_get_temperatures
    \/ Call_get_quick_summary
    \/ Call_get_temperature_summary
    \/ Call_get_gpu_info
    \/ Call_get_motherboard_info
    \/ Call_get_memory_info
    \/ Call_get_voltages
    \/ Call_get_power
    \/ Call_get_volt_power_summary
    \/ Call_get_power_display
    \/ Call_query_remote

Spec == Init /\ [][Next]_vars

-----------------------------------------------------------------------------
(* Properties                                                              *)

\* What the last call read from the sensor tree
HwmonReadings == _get_hwmon_temperatures(hwmon).val

\* C1: get_temperatures, get_quick_summary, get_volt_power_summary and
\* query_remote return a value whatever the outcome of each probe (source
\* missing, permission denied, timeout, non-zero exit, malformed or empty
\* output); none of them lets an exception reach its caller.
C1_NeverRaises ==
    op \in {"get_temperatures", "get_quick_summary", "get_volt_power_summary",
            "query_remote"}
        => raised = FALSE

\* query_remote has returned although Connection() raised
C1_Witness ==
    /\ op = "query_remote"
    /\ remote.ctor = "raise"
    /\ raised = FALSE
    /\ "error" \in DOMAIN ret

\* C2: when the connection to the remote target cannot be established,
\* query_remote returns a result that holds exactly one connection-error
\* entry, naming the target and the user, and no metric section at all.
C2_ConnectionErrorOnly ==
    (op = "query_remote" /\ (remote.ctor = "raise" \/ remote.link = "down"))
        => /\ raised = FALSE
           /\ DOMAIN ret = {"error"}

\* C3: a slot of get_quick_summary is non-null only if a reading of this
\* call was classified into the slot's category; it is never filled from a
\* reading of another category or from a default.
C3_SlotsFromOwnCategory ==
    op = "get_quick_summary"
        => /\ ret.CPU.some =>
                _get_cpu_temperatures(hwmon, thermal).val # <<>>
           /\ ret.GPU.some =>
                _get_gpu_temperatures(hwmon, nvsmi, lspci, drm).val # <<>>
           /\ ret.RAM.some => \E e \in Range(HwmonReadings) : IsRamEntry(e)
           /\ ret.VRM.some => \E e \in Range(HwmonReadings) : IsVrmEntry(e)

\* The sources of temperatures that failed in this call
FailedTemperatureSources ==
    {src \in {"hwmon", "sensors", "nvidia-smi"} :
        \/ src = "hwmon" /\ ~hwmon.exists
        \/ src = "sensors" /\ sensorsCmd.st # "ok"
        \/ src = "nvidia-smi" /\ nvsmi.st # "ok"}

\* The entries of the result that report a failure: the code knows the one
\* key "error".
ErrorEntries(result) == {k \in DOMAIN result : k \in {"error", "errors"}}

\* C4: every probe failure of a snapshot call is recorded in the result's
\* error list, one entry per failed source; with no sensor tree, no text
\* utility and no vendor tool there is one entry per missing source.
C4_FailuresAreListed ==
    (op = "get_temperatures" /\ platform = "Linux")
        => Cardinality(ErrorEntries(ret)) = Cardinality(FailedTemperatureSources)

\* The domains of the energy counter whose energy_uj holds an integer
ReadableDomains ==
    IF ~rapl.exists THEN <<>>
    ELSE SelectSeq(rapl.doms, LAMBDA d : d.isRapl /\ d.energy.st = "ok")

\* C5: for every domain of the energy counter whose energy_uj holds the
\* integer e, the probe produces an entry with energy_j = e / 1,000,000, a
\* null power and the note that the value is cumulative; no entry of the
\* probe carries a wattage.
C5_EnergyInJoules ==
    (op = "get_power" /\ platform = "Linux")
        => /\ "rapl" \in DOMAIN ret
           /\ LET entries == ret.rapl.cpu \o ret.rapl.system
              IN  /\ Len(entries) = Len(ReadableDomains)
                  /\ \A i \in DOMAIN ReadableDomains :
                        \E j \in DOMAIN entries :
                            /\ entries[j].energy_j.some
                            /\ entries[j].energy_j.n = ReadableDomains[i].energy.v
                            /\ entries[j].energy_j.d = 1000000
                  /\ \A j \in DOMAIN entries :
                        /\ entries[j].power = None
                        /\ entries[j].note
                            = "energy is cumulative; sample over time to compute watts"

\* get_power has read a counter that holds 5,000,000 microjoules
C5_Witness ==
    /\ op = "get_power"
    /\ \E i \in DOMAIN ReadableDomains : ReadableDomains[i].energy.v = 5000000
    /\ "rapl" \in DOMAIN ret
    /\ \E j \in DOMAIN ret.rapl.cpu : ret.rapl.cpu[j].energy_j = Num(5000000, 1000000)

\* C6: a value that comes from the cumulative energy counter is printed, in
\* every line of get_volt_power_summary and get_power_display, as energy
\* with the unit J and never as power with the unit W.
C6_EnergyPrintedAsJoules ==
    /\ (/\ op = "get_volt_power_summary"
        /\ platform = "Linux"
        /\ _get_gpu_power(nvsmi).val = <<>>
        /\ _get_hwmon_power(hwmon).val = <<>>)
            => \A i \in DOMAIN ret.power_line.parts :
                    ret.power_line.parts[i].unit # " W"
    /\ (op = "get_power_display" /\ "cpu" \in DOMAIN ret.lines)
            => \A i \in DOMAIN ret.lines["cpu"] : ret.lines["cpu"][i].unit = " J"

\* C7: the lists cpu, gpu and system of get_power hold no entry of the
\* energy-counter probe; its entries are in the section rapl only.
C7_PowerListsWithoutEnergy ==
    op = "get_power"
        => \A key \in {"cpu", "gpu", "system"} :
              \A i \in DOMAIN ret[key] : "energy_j" \notin DOMAIN ret[key][i]

\* The integers the readable <kind>*_input files of the sensor tree hold, in
\* the order the probe visits them
DevRaw(dev, kind) ==
    IF ~dev.isdir THEN <<>>
    ELSE LET fs == SelectSeq(dev.files, LAMBDA f : f.kind = kind /\ f.content.st = "ok")
         IN  [i \in DOMAIN fs |-> fs[i].content.v]

RawReadable(tree, kind) ==
    IF ~tree.exists THEN <<>>
    ELSE Flatten([i \in DOMAIN tree.devs |-> DevRaw(tree.devs[i], kind)])

\* The machine has one display card with one sensor directory, some
\* temperature file of it holds a number, and nvidia-smi does not answer.
OneCardRead ==
    /\ op = "get_gpu_info"
    /\ nvsmi.st # "ok"
    /\ Len(drm.cards) = 1
    /\ drm.cards[1].isdir
    /\ Len(drm.cards[1].hwmons) = 1
    /\ \E i \in DOMAIN drm.cards[1].hwmons[1] : drm.cards[1].hwmons[1][i].st = "ok"

\* The integer the first readable temperature file of that card holds
OneCardRaw == SelectSeq(drm.cards[1].hwmons[1], LAMBDA c : c.st = "ok")[1].v

\* The temperature text for t tenths of a degree
GpuText(t) == Str(TenthsText(t) \o S_degC)

\* C8 as the specification words it: every probe of the sensor tree reports
\* v / 1000 when the raw value v is above 1000 and v itself when it is not.
C8_ThresholdEverywhere ==
    /\ (op = "get_temperatures" /\ platform = "Linux")
            => LET raw == RawReadable(hwmon, "temp")
               IN  /\ Len(ret.hwmon) = Len(raw)
                   /\ \A i \in DOMAIN raw :
                        NumEq(ret.hwmon[i].temperature,
                              IF raw[i] > 1000 THEN Num(raw[i], 1000) ELSE Num(raw[i], 1))
    /\ OneCardRead
            => IF OneCardRaw > 1000
               THEN \E t \in {OneCardRaw \div 100} :
                        t * 100 = OneCardRaw /\ ret.Temperature = GpuText(t)
               ELSE ret.Temperature = GpuText(10 * OneCardRaw)

\* C8: the general sensor-tree probe reports v / 1000 for every raw value v
\* of a temperature file; the GPU read reports v / 1000 rounded to one
\* decimal when v is above 1000 and v itself when it is not.
C8_TemperatureInCelsius ==
    /\ (op = "get_temperatures" /\ platform = "Linux")
            => LET raw == RawReadable(hwmon, "temp")
               IN  /\ Len(ret.hwmon) = Len(raw)
                   /\ \A i \in DOMAIN raw :
                        NumEq(ret.hwmon[i].temperature, Num(raw[i], 1000))
    /\ OneCardRead
            => IF OneCardRaw > 1000
               THEN \E t \in {OneCardRaw \div 100, OneCardRaw \div 100 + 1} :
                        /\ t * 100 - OneCardRaw <= 50
                        /\ OneCardRaw - t * 100 <= 50
                        /\ ret.Temperature = GpuText(t)
               ELSE ret.Temperature = GpuText(10 * OneCardRaw)

\* get_temperatures has read a temperature file that holds 40
C8_Witness ==
    /\ op = "get_temperatures"
    /\ platform = "Linux"
    /\ RawReadable(hwmon, "temp") = << 40 >>
    /\ ret.hwmon[1].temperature = Num(40, 1000)

\* C9 as the specification words it: the voltage reported for the raw value
\* v is v / 1000 when v is above 100 and v itself when it is not.
C9_ThresholdOnVoltage ==
    (op = "get_voltages" /\ platform = "Linux")
        => LET raw == RawReadable(hwmon, "in")
           IN  /\ Len(ret.hwmon) = Len(raw)
               /\ \A i \in DOMAIN raw :
                    NumEq(ret.hwmon[i].voltage,
                          IF raw[i] > 100 THEN Num(raw[i], 1000) ELSE Num(raw[i], 1))

\* C9: the voltage reported for the raw value v of a voltage file of the
\* sensor tree is v / 1000, whatever v is.
C9_VoltageInVolts ==
    (op = "get_voltages" /\ platform = "Linux")
        => LET raw == RawReadable(hwmon, "in")
           IN  /\ Len(ret.hwmon) = Len(raw)
               /\ \A i \in DOMAIN raw : NumEq(ret.hwmon[i].voltage, Num(raw[i], 1000))

\* get_voltages has read a voltage file that holds 50
C9_Witness ==
    /\ op = "get_voltages"
    /\ platform = "Linux"
    /\ RawReadable(hwmon, "in") = << 50 >>
    /\ ret.hwmon[1].voltage = Num(50, 1000)

\* C10: every reading is in one category only, with the precedence CPU >
\* GPU > VRM > Memory: a reading that matches a CPU keyword is in no GPU
\* list and fills no VRM or RAM slot.
C10_OneCategoryPerReading ==
    /\ (op = "get_temperatures" /\ platform = "Linux")
            => \A i \in DOMAIN ret.cpu : \A j \in DOMAIN ret.gpu : ret.cpu[i] # ret.gpu[j]
    /\ (op = "get_quick_summary" /\ platform = "Linux" /\ Len(HwmonReadings) = 1
        /\ IsCpuReading(HwmonReadings[1]))
            => ret.VRM = None /\ ret.RAM = None

\* The CPU readings of this call: the cpu list of get_temperatures
CpuReadings == _get_cpu_temperatures(ReadAt(hwmon, 2), thermal).val

\* C11: in get_quick_summary the CPU temperature is a package-level reading
\* when the CPU list holds one, otherwise the maximum of the CPU readings,
\* and null when the list is empty.
C11_PackagePreferred ==
    (op = "get_quick_summary" /\ platform = "Linux")
        => IF \E i \in DOMAIN CpuReadings : HasPackageLabel(CpuReadings[i])
           THEN \E i \in DOMAIN CpuReadings :
                    /\ HasPackageLabel(CpuReadings[i])
                    /\ ret.CPU = CpuReadings[i].temperature
           ELSE IF CpuReadings # <<>>
           THEN /\ ret.CPU.some
                /\ \E i \in DOMAIN CpuReadings : ret.CPU = CpuReadings[i].temperature
                /\ \A i \in DOMAIN CpuReadings :
                        NumLe(CpuReadings[i].temperature, ret.CPU)
           ELSE ret.CPU = None

\* The package reading (40.0) was reported although a core reads 55.0
C11_Witness ==
    /\ op = "get_quick_summary"
    /\ ret.CPU = Num(40000, 1000)
    /\ \E i \in DOMAIN CpuReadings :
            /\ HasPackageLabel(CpuReadings[i])
            /\ CpuReadings[i].temperature = Num(40000, 1000)
    /\ \E i \in DOMAIN CpuReadings :
            /\ ~HasPackageLabel(CpuReadings[i])
            /\ CpuReadings[i].temperature = Num(55000, 1000)

\* The GPU readings of this call: the gpu list of get_temperatures
GpuReadings == _get_gpu_temperatures(ReadAt(hwmon, 3), nvsmi, lspci, drm).val

\* C12 as the specification words it: when the vendor tool and the sensor
\* tree both report a GPU temperature, the summary holds the vendor tool's
\* value, whichever is larger.
C12_VendorToolFirst ==
    (/\ op = "get_quick_summary"
     /\ platform = "Linux"
     /\ _get_nvidia_temperature(nvsmi).val # <<>>
     /\ SelectSeq(HwmonReadings, IsGpuReading) # <<>>)
        => NumEq(ret.GPU, _get_nvidia_temperature(nvsmi).val[1].temperature)

\* C12: no priority among the sources is applied to the GPU slot: it holds
\* the largest of the readings the sensor tree, the vendor tool and gpu_info
\* offer, and null when none offers one.
C12_LargestGpuReading ==
    (op = "get_quick_summary" /\ platform = "Linux")
        => IF GpuReadings = <<>> THEN ret.GPU = None
           ELSE /\ ret.GPU.some
                /\ \E i \in DOMAIN GpuReadings : ret.GPU = GpuReadings[i].temperature
                /\ \A i \in DOMAIN GpuReadings :
                        NumLe(GpuReadings[i].temperature, ret.GPU)

\* The sensor tree reads 70.0, nvidia-smi 61, and the summary holds 70.0
C12_Witness ==
    /\ op = "get_quick_summary"
    /\ platform = "Linux"
    /\ hwmon = HotAmdgpu
    /\ nvsmi = OneNvidia
    /\ \E i \in DOMAIN GpuReadings :
            GpuReadings[i].file = S_nvidia_smi /\ GpuReadings[i].temperature = Num(61, 1)
    /\ ret.GPU = Num(70000, 1000)

\* The package-level readings the sensor tree offers in this call
\* The package readings of the sensor tree, as the CPU probe's walk finds them
HwmonPackageReadings ==
    SelectSeq(_get_hwmon_temperatures(ReadAt(hwmon, 2)).val, HasPackageLabel)

\* The text utility prints a package-level reading
SensorsOffersPackage ==
    /\ sensorsCmd.st = "ok"
    /\ \E k \in DOMAIN sensorsCmd.lines :
            /\ sensorsCmd.lines[k].kind = "reading"
            /\ Contains(Lower(sensorsCmd.lines[k].label), K_package)

\* C13: when the sensor tree offers one CPU package reading x, the CPU
\* temperature of the summary is x whatever the text utility reports and in
\* whatever order the devices of the tree are enumerated.
C13_SensorTreeDecidesCpu ==
    (op = "get_quick_summary" /\ platform = "Linux" /\ Len(HwmonPackageReadings) = 1)
        => ret.CPU = HwmonPackageReadings[1].temperature

\* The sensor tree reads 55.0, the text utility prints 52.0 for the package,
\* and the summary holds 55.0
C13_Witness ==
    /\ op = "get_quick_summary"
    /\ platform = "Linux"
    /\ hwmon = OneCoretemp
    /\ SensorsOffersPackage
    /\ \E k \in DOMAIN sensorsCmd.lines :
            sensorsCmd.lines[k].kind = "reading" /\ sensorsCmd.lines[k].val = 52000
    /\ ret.CPU = Num(55000, 1000)

\* The sensor tree is one device named coretemp with one temperature input,
\* labelled "Package id 0", that holds a number above 1000
ScenarioA ==
    /\ hwmon.exists
    /\ ~hwmon.rising
    /\ Len(hwmon.devs) = 1
    /\ hwmon.devs[1].isdir
    /\ hwmon.devs[1].name = Str(S_coretemp)
    /\ Len(hwmon.devs[1].files) = 1
    /\ hwmon.devs[1].files[1].kind = "temp"
    /\ hwmon.devs[1].files[1].label = Str(S_PackageId0)
    /\ hwmon.devs[1].files[1].content.st = "ok"
    /\ hwmon.devs[1].files[1].content.v > 1000

\* C14: with one device coretemp whose only temperature input holds m > 1000
\* millidegrees under the label "Package id 0", and any thermal zones,
\* get_quick_summary reports the CPU temperature m / 1000.
C14_ScenarioA ==
    (op = "get_quick_summary" /\ platform = "Linux" /\ ScenarioA)
        => /\ ret.CPU.some
           /\ ret.CPU.n * 1000 = hwmon.devs[1].files[1].content.v * ret.CPU.d

\* temp1_input = 45000 gave 45.0
C14_Witness ==
    /\ op = "get_quick_summary"
    /\ platform = "Linux"
    /\ ScenarioA
    /\ hwmon.devs[1].files[1].content.v = 45000
    /\ NumEq(ret.CPU, Num(45, 1))

\* The indented "label: value" lines of the text utility's output that carry
\* a value of the unit
IndentedReadings(unit) ==
    IF sensorsCmd.st # "ok" THEN <<>>
    ELSE SelectSeq(sensorsCmd.lines,
                   LAMBDA l : l.kind = "reading" /\ l.indent > 0 /\ l.unit = unit)

\* The output starts with a chip header and an Adapter: line
SensorsOutputWellFormed ==
    /\ sensorsCmd.st = "ok"
    /\ Len(sensorsCmd.lines) >= 2
    /\ sensorsCmd.lines[1].kind = "chip"
    /\ sensorsCmd.lines[2].kind = "adapter"

\* C15: when the text utility succeeds with a chip header, an Adapter: line
\* and indented "label: value" lines, the text-utility probe returns one
\* reading per indented line that carries a temperature, with the line's
\* label and value and the chip header as sensor name.
C15_SensorsLinesParsed ==
    (op = "get_temperatures" /\ platform = "Linux" /\ SensorsOutputWellFormed)
        => LET lines == IndentedReadings("C")
           IN  /\ Len(ret.sensors) = Len(lines)
               /\ \A i \in DOMAIN lines :
                    /\ ret.sensors[i].label = lines[i].label
                    /\ ret.sensors[i].temperature = Num(lines[i].val, 1000)
                    /\ ret.sensors[i].sensor = sensorsCmd.lines[1].chip


\* C16: when nvidia-smi succeeds and prints a line "name, memory, temperature"
\* (at least three comma-separated fields), get_gpu_info returns the Name,
\* Memory and Temperature of that line with Vendor NVIDIA, and neither lspci
\* nor the DRM sensor tree contributes to a field.
VendorToolLine == nvsmi.st = "ok" /\ Len(nvsmi.gpus) >= 1

C16_VendorToolAuthoritative ==
    (op = "get_gpu_info" /\ VendorToolLine)
        => LET g == nvsmi.gpus[1]
           IN  /\ ret.Name = Str(g.name)
               /\ ret.Vendor = Str(S_NVIDIA)
               /\ ret.Memory = Str(FieldText(g.mem) \o S_MB)
               /\ ret.Temperature = Str(FieldText(g.temp) \o S_degC)


\* C17: every result of get_gpu_info whose Vendor is Intel has the marker
\* 'Shared (system)' as Memory, and every result that did not come from
\* nvidia-smi and whose Vendor is not Intel has Memory None.
FromVendorTool == GpuInfoFromNvsmi(nvsmi).done

DirectReadsYieldNothing ==
    /\ ~StrTruthy(StrOr(_read_sys(dmi.board_vendor), _read_sys(dmi.chassis_vendor)))
    /\ ~StrTruthy(StrOr(_read_sys(dmi.board_name), _read_sys(dmi.product_name)))
    /\ ~StrTruthy(StrOr(_read_sys(dmi.bios_version), _read_sys(dmi.bios_date)))

DecodeReturnsFields ==
    LET d == _get_from_dmidecode(dmidecode)
    IN  d.some /\ StrTruthy(d.res.manufacturer) /\ StrTruthy(d.res.product)
               /\ StrTruthy(d.res.bios_version)

C18_DecodeUtilityFallback ==
    (op = "get_motherboard_info" /\ DirectReadsYieldNothing /\ DecodeReturnsFields)
        => LET d == _get_from_dmidecode(dmidecode).res
           IN  /\ ret.manufacturer = d.manufacturer
               /\ ret.product = d.product
               /\ ret.bios_version = d.bios_version


\* C19: when dmidecode is installed but cannot be run successfully (lack of
\* privilege), get_memory_info returns without raising and Type and Frequency
\* are each a value lshw gave or a non-empty note, never None and never '';
\* when neither dmidecode nor lshw is installed both fields are the
\* 'Unavailable' note.
DecodeNotPermitted == dmidecode.st \in {"fail", "timeout"}

LshwValues ==
    IF lshw.st = "ok"
    THEN LshwLoop([Total |-> None, Type |-> NoStr, Frequency |-> NoStr, Channel |-> NoStr],
                  lshw.lines)
    ELSE [Total |-> None, Type |-> NoStr, Frequency |-> NoStr, Channel |-> NoStr]

C19_MemoryDegradesToNote ==
    op = "get_memory_info"
        => /\ ~raised
           /\ DecodeNotPermitted
                => /\ StrTruthy(ret.Type)
                   /\ StrTruthy(ret.Frequency)
                   /\ ret.Type \in {LshwValues.Type, Str(S_NeedSudo)}
                   /\ ret.Frequency \in {LshwValues.Frequency, Str(S_NeedSudo)}
           /\ (dmidecode.st = "missing" /\ lshw.st = "missing")
                => /\ ret.Type = Str(S_InstallTools)
                   /\ ret.Frequency = Str(S_InstallTools)

C19_Witness ==
    /\ op = "get_memory_info"
    /\ DecodeNotPermitted
    /\ ret.Type = Str(K_DDR \o <<"3">>)
    /\ ret.Frequency = Str(S_NeedSudo)


\* The temperature slots the local parsers and resolvers give for the texts
\* the remote host printed: the CPU readings _get_sensors_temperatures parses
\* from the `sensors -A` output, resolved package first, else the maximum, and
\* the readings of nvidia-smi, resolved to their maximum.
LocalCpuSlot ==
    QuickCpu(SelectSeq(_get_sensors_temperatures(remote.sensors).val, IsCpuReading))

LocalGpuSlot == QuickGpu(_get_nvidia_temperature(remote.nvsmi).val)

SameReading(a, b) == a.some = b.some /\ (a.some => NumEq(a, b))

\* C20: for the same `sensors -A` output and the same nvidia-smi output, the
\* CPU and GPU temperatures of the remote snapshot equal the values the local
\* parser and resolver produce from that output.
C20_RemoteMatchesLocal ==
    (op = "query_remote" /\ "Temperatures" \in DOMAIN ret /\ remote.link = "up")
        => /\ SameReading(ret.Temperatures.CPU, LocalCpuSlot)
           /\ SameReading(ret.Temperatures.GPU, LocalGpuSlot)


\* A text field is None or a non-empty text; a measure is None, the marker
\* 'Shared (system)', or a number followed by its unit.
TextIsValue(x) == x.some => x.s # <<>>

MeasureIsValue(x, unit) ==
    x.some => \/ x.s = S_Shared
              \/ /\ EndsWith(x.s, unit)
                 /\ IsNumberText(SubSeq(x.s, 1, Len(x.s) - Len(unit)))

GpuInfoIsValues(g) ==
    /\ TextIsValue(g.Name)
    /\ TextIsValue(g.Vendor)
    /\ MeasureIsValue(g.Memory, S_MB)
    /\ MeasureIsValue(g.Temperature, S_degC)

\* C21: in every result of get_gpu_info, get_quick_summary and query_remote
\* each field is None or a non-empty value derived from an actual reading:
\* never an empty text, a unit suffix without a number, or a zero standing in
\* for missing data, also when a tool prints empty or placeholder fields.
C21_AbsenceIsNull ==
    /\ op = "get_gpu_info" => GpuInfoIsValues(ret)
    /\ op = "get_quick_summary"
         => /\ ret.CPU.some => \E e \in Range(CpuReadings) : e.temperature = ret.CPU
            /\ ret.GPU.some => \E e \in Range(GpuReadings) : e.temperature = ret.GPU
    /\ (op = "query_remote" /\ "GPU_Info" \in DOMAIN ret)
         => /\ GpuInfoIsValues(ret.GPU_Info)
            /\ \A k \in DOMAIN ret.OS_Info : ret.OS_Info[k].some => ret.OS_Info[k].s # ""


\* C22: the merge step is a function of the probe outputs only: calling
\* get_quick_summary (or get_volt_power_summary) again against the same probe
\* outputs gives the same result, and whatever operation ran before, the
\* result is the one the probe outputs alone determine.
MergeOps == {"get_quick_summary", "get_volt_power_summary"}

MergeResult(name) ==
    IF name = "get_quick_summary"
    THEN get_quick_summary(platform, hwmon, thermal, sensorsCmd, nvsmi, lspci, drm).val
    ELSE get_volt_power_summary(platform, hwmon, sensorsCmd, rapl, nvsmi).val

TimedOutProbes ==
    {src \in {"sensors", "nvidia-smi"} :
        \/ src = "sensors" /\ sensorsCmd.st = "timeout"
        \/ src = "nvidia-smi" /\ nvsmi.st = "timeout"}

\* C23: when a probe exceeds its timeout, its partial result is discarded
\* (it contributes no reading), a Timeout error attributed to the probe is
\* recorded in the result, the other probes still run, and the snapshot call
\* still returns.
C23_TimeoutIsRecorded ==
    (op = "get_temperatures" /\ platform = "Linux" /\ TimedOutProbes # {})
        => /\ ~raised
           /\ "sensors" \in TimedOutProbes => ret.sensors = <<>>
           /\ ret.hwmon = _get_hwmon_temperatures(hwmon).val
           /\ ErrorEntries(ret) # {}


RemoteSections ==
    {"OS_Info", "CPU_Info", "Memory_Info", "GPU_Info", "Temperatures", "Motherboard"}

\* The remote host with a vendor tool that answers
RemoteWithVendorTool == [remote EXCEPT !.nvsmi = OneNvidia]

\* C24: a failure of one probe leaves the contributions of the other probes
\* unchanged.  In get_temperatures a failing `sensors` or nvidia-smi does not
\* alter the sensor-tree list, the CPU list, or the sensor-tree readings of
\* the GPU list; in query_remote a failing remote command leaves all six
\* sections in the result and the other sections as they are.
C24_ProbeFailureIsIsolated ==
    /\ (op = "get_temperatures" /\ platform = "Linux"
            /\ (sensorsCmd.st # "ok" \/ nvsmi.st # "ok"))
         => LET tree == _get_hwmon_temperatures(hwmon).val
                gpu  == SelectSeq(_get_hwmon_temperatures(ReadAt(hwmon, 3)).val,
                                  IsGpuReading)
            IN  /\ ListOf(ret, "hwmon") = tree
                /\ ListOf(ret, "cpu") = CpuReadings
                /\ Len(ListOf(ret, "gpu")) >= Len(gpu)
                /\ SubSeq(ListOf(ret, "gpu"), 1, Len(gpu)) = gpu
    /\ (op = "query_remote" /\ remote.ctor = "ok")
         => /\ RemoteSections \subseteq DOMAIN ret
            /\ remote.nvsmi.st # "ok"
                 => /\ ret.OS_Info = _get_os_info(RemoteWithVendorTool)
                    /\ ret.Memory_Info = _get_mem_info(RemoteWithVendorTool)
                    /\ ret.Motherboard = _get_motherboard(RemoteWithVendorTool)
                    /\ ret.Temperatures.CPU = _get_temp_summary(RemoteWithVendorTool).CPU

C24_Witness ==
    /\ op = "get_temperatures"
    /\ platform = "Linux"
    /\ sensorsCmd.st = "timeout"
    /\ ret.hwmon # <<>>
    /\ ret.cpu # <<>>


\* C25: when a probe invocation returns, on success and on every failure
\* path, every file it opened, the child process it started and the remote
\* session are released: nothing it opened is still open.
C25_NothingLeftOpen == op # "none" => unclosed = 0

\* C26: a result of get_temperatures is one point-in-time view: every
\* sensor-tree reading of its 'cpu' or 'gpu' list is also in its 'hwmon'
\* list with the identical temperature, even when the sensor values change
\* while the call is in progress.
FromSensorTree(e) == e.file \notin {S_nvidia_smi, S_gpu_info} /\ ~StartsWith(e.file, S_thermal_zone)

C26_OnePointInTime ==
    (op = "get_temperatures" /\ platform = "Linux")
        => \A e \in Range(ListOf(ret, "cpu")) \cup Range(ListOf(ret, "gpu")) :
              FromSensorTree(e) => e \in Range(ListOf(ret, "hwmon"))


VendorToolUnavailable == ~GpuInfoFromNvsmi(nvsmi).done

\* The display cards with each card's sensor directories filed under the
\* card's own bus address
DrmByOwnAddress ==
    [drm EXCEPT !.cards = [i \in DOMAIN drm.cards |-> OnRootBus(drm.cards[i])]]

\* C27: when nvidia-smi is unavailable, the Temperature of get_gpu_info is
\* the sensor-tree temperature of the card whose bus address is that of the
\* preferred display device of lspci (NVIDIA first, else the first non-Intel
\* device with a vendor, else the first device); only when no card has that
\* address is another card's temperature used (a card with NVIDIA's vendor
\* id first, else the first found), and it is None when no card has a
\* temperature.
C27_TemperatureOfPreferredDevice ==
    (op = "get_gpu_info" /\ VendorToolUnavailable)
        => ret.Temperature = get_gpu_info(nvsmi, lspci, DrmByOwnAddress).Temperature


\* The sum of the instantaneous power readings of a result of get_power:
\* the non-null readings of nvidia-smi and those of the sensor tree
InstantaneousPower(result) ==
    SumPower(SumGpuPower(Ok(Num(0, 1)), result.gpu), ListOf(result, "hwmon")).val

\* C28: 'total' of get_power is the sum of all non-null instantaneous power
\* readings (nvidia-smi plus sensor tree) whenever that sum is positive,
\* whether or not energy-counter domains are present, and None only when no
\* positive instantaneous reading exists.
C28_TotalIsInstantaneousSum ==
    (op = "get_power" /\ platform = "Linux" /\ "error" \notin DOMAIN ret)
        => LET sum == InstantaneousPower(ret)
           IN  IF NumLt(Num(0, 1), sum)
               THEN ret.total = sum
               ELSE ret.total = None


\* The readings one call of get_temperatures obtained, each once: those of
\* the sensor tree and of the sensors command, and the readings of the cpu
\* and gpu lists that come from elsewhere (thermal zones, nvidia-smi, the
\* gpu_info module)
DistinctReadings(temps) ==
    ListOf(temps, "hwmon") \o ListOf(temps, "sensors")
        \o SelectSeq(ListOf(temps, "cpu") \o ListOf(temps, "gpu"),
                     LAMBDA e : ~FromSensorTree(e))

\* critical threshold known and temperature >= threshold
AtOrAboveCritical(t) == t.critical.some /\ NumLe(t.critical, t.temperature)

SummarisedTemps == get_temperatures(platform, hwmon, thermal, sensorsCmd, nvsmi, lspci, drm).val

\* C29: get_temperature_summary counts every reading obtained in the call
\* exactly once: total_sensors is the number of distinct readings, and
\* critical_alerts has one entry for each distinct reading whose critical
\* threshold is known and whose temperature is at or above it, and no other.
C29_EachReadingCountedOnce ==
    op = "get_temperature_summary"
        => LET readings == DistinctReadings(SummarisedTemps)
               hot      == SelectSeq(readings, AtOrAboveCritical)
           IN  /\ ret.total_sensors = Len(readings)
               /\ Len(ret.critical_alerts) = Len(hot)
               /\ Range(ret.critical_alerts) = {AlertOf(hot[i]) : i \in DOMAIN hot}


\* The instantaneous power readings of the machine (nvidia-smi and sensor
\* tree), those among them with a watt value, and the CPU entries of the
\* energy counters
InstantReadings == _get_gpu_power(nvsmi).val \o _get_hwmon_power(hwmon).val
WattReadings    == SelectSeq(InstantReadings, LAMBDA e : e.power.some)
CounterEntries  == _get_rapl_power(rapl).val.cpu

\* C30: the power line of get_volt_power_summary shows the instantaneous
\* power readings when at least one of them has an actual watt value;
\* otherwise it shows the CPU energy-counter entries when there are any;
\* it is 'None' only when there is neither.
C30_PowerLinePrefersWatts ==
    (op = "get_volt_power_summary" /\ platform = "Linux" /\ ~raised)
        => /\ WattReadings # <<>>
                => ret.power_line = _compact_join(InstantReadings)
           /\ (WattReadings = <<>> /\ CounterEntries # <<>>)
                => ret.power_line = _compact_join(CounterEntries)
           /\ ret.power_line.none
                => (WattReadings = <<>> /\ CounterEntries = <<>>)

=============================================================================
